---- MODULE Spec2Model ----
(***************************************************************************)
(* Model of the port routing graph (src/audio/port.c) and of the recording *)
(* pipeline (src/audio/recording_manager.c) of zrythm.                     *)
(*                                                                         *)
(* Spec      : connect / disconnect / disconnect_all / can_be_connected    *)
(* SpecFree  : connect / disconnect / ports_remove (port_free)             *)
(* SpecRec   : the audio thread's handle_recording against the             *)
(*             events_process consumer                                     *)
(***************************************************************************)
EXTENDS Integers, Sequences, FiniteSets, TLC

(***************************************************************************)
(* Bounds                                                                  *)
(***************************************************************************)
\* number of ports in the project
NumPorts == 3
\* number of port operations performed in one behaviour
MaxOps == 3

Ports == 1 .. NumPorts
PortTypes == {"AUDIO", "EVENT", "CONTROL", "CV"}
\* The project's ports (port_get_all): the CV outputs of two modulators and
\* the control input of a plugin they can drive; further ports are channel
\* audio ports
Layout == <<"CV", "CONTROL", "CV">>
TypeOfPort(p) == IF p <= Len(Layout) THEN Layout[p] ELSE "AUDIO"

\* number of handle_recording calls (one per track and cycle) in a behaviour
MaxCycles == 2
\* frames in the block of one engine cycle (AUDIO_ENGINE->nframes)
BlockLength == 2
Frames == 0 .. BlockLength - 1
\* sample values a port owner writes into a buffer
SampleValues == {0, 1}
\* cycles of the runs that follow the timeline / one recording session
MaxTlCycles == 3
MaxSessionCycles == 3
\* cycles of the runs in which two tracks are recorded side by side
MaxPairCycles == 5
\* events queued at most while the audio thread keeps cycling with gating
\* false
MaxQueued == 4
\* tracks of the project whose ports are loaded
NumLoadedTracks == 1
\* transport loop: TRANSPORT->loop_start_pos.frames / loop_end_pos.frames
LoopStartFrames == BlockLength
LoopEndFrames == 5 * BlockLength
\* where the user has placed the playhead before rolling
PlayheadStarts == {0, 3 * BlockLength}
\* the instrument track whose timeline is followed
TlTrack == 1
\* the audio track whose clip is followed
AuTrack == 2
\* number of MIDI messages a track processor can hold in one cycle
MaxMidi == 1

\* The project's tracks: an instrument track and an audio track
Tracks == {1, 2}
TrackType(t) == IF t = 1 THEN "MIDI" ELSE "AUDIO"

VARIABLES
  ports,    \* Port structs: type, srcs, dests, per-destination arrays, values
  alive,    \* ports that have not been passed to port_free
  last,     \* the last port operation: name, arguments, return value
  nops,     \* number of port operations performed so far
  tracks,       \* per track: recording_region and the automation track's
                \* recording_started / recording_region
  mgr,          \* RecordingManager: is_recording, recorded_ids, selections,
                \* source_id, and whether it has been freed
  regions,      \* the regions created so far, by identifier
  undo,         \* the record actions handed to undo_manager_perform
  event_queue,  \* RecordingManager event_queue
  pool_avail,   \* records left in event_obj_pool
  consumer_pc,  \* "idle" or "running": position of events_process;
                \* "aborted" once the process has ended
  ncycles,      \* number of handle_recording calls so far
  nev,          \* number of events pushed so far
  step,         \* the last step of the recording pipeline
  dispatched,   \* identifiers of the events dispatched so far, in order
  bufs,         \* per port: buf, the samples of the current block
  sum_call,     \* arguments of the last port_sum_signal_from_inputs call
  playhead,     \* transport position in frames
  ev_data,      \* per queued event: g_start_frames, nframes, midi_event
  region_data,  \* per region: pos, end_pos, lane_pos, midi notes
  cycles,       \* the cycles handed to handle_recording so far
  tl_step       \* what the last dispatch found in the recording region

portVars == <<ports, alive, last, nops>>
recVars == <<tracks, mgr, regions, undo, event_queue, pool_avail,
             consumer_pc, ncycles, nev, step, dispatched>>
sumVars == <<bufs, sum_call>>
tlVars == <<playhead, ev_data, region_data, cycles, tl_step>>

(***************************************************************************)
(* utils/arrays.h helpers used by port.c                                   *)
(***************************************************************************)
Range(s) == {s[i] : i \in 1 .. Len(s)}

\* array_contains (array, size, element)
ArrayContains(arr, el) == \E i \in 1 .. Len(arr) : arr[i] = el

\* position of the first occurrence of el in arr, 0 when absent
ArrayIndexOf(arr, el) ==
  IF ArrayContains(arr, el)
    THEN CHOOSE i \in 1 .. Len(arr) :
           arr[i] = el /\ \A j \in 1 .. (i - 1) : arr[j] # el
    ELSE 0

\* array_delete_return_pos (array, size, element, pos): removes the first
\* occurrence of the element and shifts the tail down; no-op when absent
ArrayDelete(arr, el) ==
  LET pos == ArrayIndexOf(arr, el)
  IN  IF pos = 0 THEN arr
      ELSE [i \in 1 .. (Len(arr) - 1) |->
              IF i < pos THEN arr[i] ELSE arr[i + 1]]

(***************************************************************************)
(* port.c                                                                  *)
(***************************************************************************)
\* port_new: calloc'ed struct, no sources, no destinations
PortNew(type, control) ==
  [type          |-> type,
   srcs          |-> << >>,
   dests         |-> << >>,
   multipliers   |-> [i \in Ports |-> 0],
   dest_locked   |-> [i \in Ports |-> 0],
   dest_enabled  |-> [i \in Ports |-> 0],
   internal_type |-> IF type = "CONTROL" THEN "LV2" ELSE "NONE",
   base_value    |-> 0,
   control       |-> control]

\* port_disconnect: array_delete on src->dests, then on dest->srcs.
\* Only the pointer arrays (and the identifier copies that mirror them) are
\* shifted; multipliers / dest_locked / dest_enabled are left in place.
PortDisconnect_OneSided(P, src, dest) ==
  [P EXCEPT ![src].dests = ArrayDelete(@, dest)]

PortDisconnect(P, src, dest) ==
  LET P1 == [P EXCEPT ![src].dests = ArrayDelete(@, dest)]
  IN  [P1 EXCEPT ![dest].srcs = ArrayDelete(@, src)]

\* the type test of port_connect (port.c:557-560): TRUE when the pair is
\* accepted
TypesAccepted_Loose(st, dt) ==
  st = dt \/ (st = "CV" /\ dt = "CONTROL") \/ (st = "CONTROL" /\ dt = "CV")

TypesAccepted(st, dt) ==
  ~ ((st # dt) /\ ~ (st = "CV" /\ dt = "CONTROL"))

\* port_connect: returns the new port structs and the return value
PortConnect_NoSrcs(P, src, dest, locked) ==
  LET P1 == PortDisconnect(P, src, dest)
  IN  IF ~ TypesAccepted(P1[src].type, P1[dest].type)
        THEN [ports |-> P1, ret |-> -1]
        ELSE LET n  == Len(P1[src].dests) + 1
             IN  [ports |-> [P1 EXCEPT ![src].dests = Append(@, dest),
                                       ![src].multipliers[n] = 1,
                                       ![src].dest_locked[n] = locked,
                                       ![src].dest_enabled[n] = 1],
                  ret |-> 0]

PortConnect(P, src, dest, locked) ==
  LET P1 == PortDisconnect(P, src, dest)
  IN  IF ~ TypesAccepted(P1[src].type, P1[dest].type)
        THEN [ports |-> P1, ret |-> -1]
        ELSE LET n  == Len(P1[src].dests) + 1
                 P2 == [P1 EXCEPT ![src].dests = Append(@, dest),
                                  ![src].multipliers[n] = 1,
                                  ![src].dest_locked[n] = locked,
                                  ![src].dest_enabled[n] = 1]
                 P3 == [P2 EXCEPT ![dest].srcs = Append(@, src)]
                 P4 == IF P3[src].type = "CV" /\ P3[dest].type = "CONTROL"
                          /\ P3[dest].internal_type = "LV2"
                         THEN [P3 EXCEPT ![dest].base_value =
                                            P3[dest].control]
                         ELSE P3
             IN  [ports |-> P4, ret |-> 0]

\* ports_connected: membership test on src->dests
PortsConnected(P, src, dest) ==
  IF ArrayContains(P[src].dests, dest) THEN 1 ELSE 0

\* port_disconnect_all: FOREACH_SRCS / FOREACH_DESTS walk the arrays with an
\* index i that is incremented after every port_disconnect, while the
\* disconnect shrinks the very array being walked.
RECURSIVE DisconnectSrcsFrom(_, _, _)
DisconnectSrcsFrom(P, port, i) ==
  IF i > Len(P[port].srcs) THEN P
  ELSE DisconnectSrcsFrom(PortDisconnect(P, P[port].srcs[i], port),
                          port, i + 1)

RECURSIVE DisconnectDestsFrom(_, _, _)
DisconnectDestsFrom(P, port, i) ==
  IF i > Len(P[port].dests) THEN P
  ELSE DisconnectDestsFrom(PortDisconnect(P, port, P[port].dests[i]),
                           port, i + 1)

PortDisconnectAll(P, port) ==
  DisconnectDestsFrom(DisconnectSrcsFrom(P, port, 1), port, 1)

\* directed edges of the routing graph, read from the destination lists
Edges(P) == {<<a, b>> \in Ports \X Ports : ArrayContains(P[a].dests, b)}

\* ports reachable from the set S in one or more steps over the edges E
RECURSIVE ReachFrom(_, _)
ReachFrom(E, S) ==
  LET T == S \cup {e[2] : e \in {f \in E : f[1] \in S}}
  IN  IF T = S THEN S ELSE ReachFrom(E, T)

Reaches(E, a, b) == b \in ReachFrom(E, {e[2] : e \in {f \in E : f[1] = a}})

IsAcyclic(E) == \A a \in Ports : ~ Reaches(E, a, a)

\* graph_new (router, src, dest): the trial graph holding the candidate
\* edge; non-NULL (TRUE) iff that graph can be ordered topologically
GraphNew(P, src, dest) == IsAcyclic(Edges(P) \cup {<<src, dest>>})

\* ports_can_be_connected
PortsCanBeConnected(P, src, dest) ==
  IF GraphNew(P, src, dest) THEN 1 ELSE 0

\* port_sum_signal_from_inputs, TYPE_AUDIO: the frames the two loops
\* `for (l = start_frame; l < nframes; l++)' visit
SumLoopFrames(start_frame, nframes) ==
  {l \in Frames : start_frame <= l /\ l < nframes}

\* the loop over port->srcs from index k on: buf[l] += src_port->buf[l]
RECURSIVE SumSrcs(_, _, _, _, _)
SumSrcs(B, port, srcs, k, L) ==
  IF k > Len(srcs) THEN B
  ELSE SumSrcs([B EXCEPT ![port] =
                  [l \in Frames |->
                     IF l \in L THEN B[port][l] + B[srcs[k]][l]
                                ELSE B[port][l]]],
               port, srcs, k + 1, L)

\* port_sum_signal_from_inputs for a port that is not backed by JACK
\* (port_sum_data_from_jack and port_send_data_to_jack return at once);
\* the TYPE_EVENT and TYPE_CONTROL branches leave buf alone
PortSumSignalFromInputs(P, B, port, start_frame, nframes, noroll) ==
  IF P[port].type # "AUDIO" THEN B
  ELSE IF noroll
         THEN [B EXCEPT ![port] =
                 [l \in Frames |->
                    IF l \in SumLoopFrames(start_frame, nframes)
                      THEN 0 ELSE B[port][l]]]
         ELSE SumSrcs(B, port, P[port].srcs, 1,
                      SumLoopFrames(start_frame, nframes))

\* the declared range of the control (lv2_control->minf, ->maxf)
ControlMin == 0
ControlMax == 4

\* CLAMP (x, low, high)
Clamp(x, low, high) ==
  IF x > high THEN high ELSE IF x < low THEN low ELSE x

\* port_get_dest_index: the position of the destination in src->dests
PortGetDestIndex(P, src, port) == ArrayIndexOf(P[src].dests, port)

\* the loop over port->srcs of the TYPE_CONTROL branch from index k on;
\* first_cv tells whether no CV source has been met yet
RECURSIVE ControlFromSrcs_AlwaysBase(_, _, _, _, _)
ControlFromSrcs_AlwaysBase(P, B, port, k, first_cv) ==
  IF k > Len(P[port].srcs) THEN P
  ELSE LET src_port == P[port].srcs[k]
       IN  IF P[src_port].type = "CV"
             THEN LET depth_range == (ControlMax - ControlMin) \div 2
                      val_to_use  == P[port].base_value
                      mult == P[src_port].multipliers[
                                PortGetDestIndex(P, src_port, port)]
                      P1 == [P EXCEPT ![port].control =
                               Clamp(val_to_use
                                       + depth_range * B[src_port][0] * mult,
                                     ControlMin, ControlMax)]
                  IN  ControlFromSrcs_AlwaysBase(P1, B, port, k + 1, FALSE)
             ELSE ControlFromSrcs_AlwaysBase(P, B, port, k + 1, first_cv)

RECURSIVE ControlFromSrcs(_, _, _, _, _)
ControlFromSrcs(P, B, port, k, first_cv) ==
  IF k > Len(P[port].srcs) THEN P
  ELSE LET src_port == P[port].srcs[k]
       IN  IF P[src_port].type = "CV"
             THEN LET depth_range == (ControlMax - ControlMin) \div 2
                      val_to_use  == IF first_cv THEN P[port].base_value
                                                 ELSE P[port].control
                      mult == P[src_port].multipliers[
                                PortGetDestIndex(P, src_port, port)]
                      P1 == [P EXCEPT ![port].control =
                               Clamp(val_to_use
                                       + depth_range * B[src_port][0] * mult,
                                     ControlMin, ControlMax)]
                  IN  ControlFromSrcs(P1, B, port, k + 1, FALSE)
             ELSE ControlFromSrcs(P, B, port, k + 1, first_cv)

\* port_sum_signal_from_inputs, what it does to the port structs: the
\* TYPE_CONTROL branch sets the control value, with or without no-roll
PortSumControlFromInputs(P, B, port) ==
  IF P[port].type = "CONTROL"
    THEN ControlFromSrcs(P, B, port, 1, TRUE)
    ELSE P

(***************************************************************************)
(* Port identifiers                                                        *)
(***************************************************************************)
\* the ports the project holds, named by where their owner keeps them:
\* AUDIO_ENGINE, a plugin of a track's channel, the channel, its fader and
\* pre-fader, SAMPLE_PROCESSOR
OwnedPort(owner, track_pos, member, side) ==
  [owner |-> owner, track_pos |-> track_pos, member |-> member,
   side |-> side]
NullPort == OwnedPort("NONE", -1, "none", "none")
OwnedPorts ==
  {OwnedPort("BACKEND", -1, m, "none") :
     m \in {"midi_editor_manual_press", "midi_in"}}
    \cup {OwnedPort("BACKEND", -1, m, c) : m \in {"stereo_in", "stereo_out"}, c \in {"l", "r"}}
    \cup {OwnedPort("PLUGIN", t, m, "none") :
            t \in 0 .. NumLoadedTracks - 1, m \in {"in_ports", "out_ports"}}
    \cup {OwnedPort("TRACK", t, m, "none") :
            t \in 0 .. NumLoadedTracks - 1, m \in {"piano_roll", "midi_in"}}
    \cup {OwnedPort(o, t, m, c) :
            o \in {"TRACK", "FADER", "PREFADER"}, t \in 0 .. NumLoadedTracks - 1,
            m \in {"stereo_in", "stereo_out"}, c \in {"l", "r"}}
    \cup {OwnedPort("SAMPLE_PROCESSOR", -1, "stereo_out", c) : c \in {"l", "r"}}

\* the identifier a port is saved with: owner kind, type, flow, flags and
\* the position of the track; plugin ports are those of slot 0, index 0
IdentifierOf(P) ==
  [owner_type |-> P.owner,
   type  |-> IF P.member \in {"midi_editor_manual_press", "midi_in",
                              "piano_roll"}
               THEN "EVENT" ELSE "AUDIO",
   flow  |-> IF P.member \in {"stereo_out", "out_ports"}
               THEN "OUTPUT" ELSE "INPUT",
   flags |-> (IF P.side = "l" THEN {"STEREO_L"} ELSE {})
               \cup (IF P.side = "r" THEN {"STEREO_R"} ELSE {})
               \cup (IF P.member = "midi_editor_manual_press"
                       THEN {"MANUAL_PRESS"} ELSE {})
               \cup (IF P.member = "piano_roll" THEN {"PIANO_ROLL"} ELSE {}),
   track_pos |-> P.track_pos]

\* the stereo pair member the flags of the identifier select
StereoSide(o, t, m, id) ==
  IF "STEREO_L" \in id.flags THEN OwnedPort(o, t, m, "l")
  ELSE IF "STEREO_R" \in id.flags THEN OwnedPort(o, t, m, "r")
  ELSE NullPort

\* port_find_from_identifier: the switch over the owner kind; the input
\* branch of the fader and pre-fader cases returns stereo_in->r for either
\* flag
PortFindFromIdentifier(id) ==
  CASE id.owner_type = "BACKEND" ->
         (CASE id.type = "EVENT" ->
                 (IF id.flow = "INPUT"
                    THEN IF "MANUAL_PRESS" \in id.flags
                           THEN OwnedPort("BACKEND", -1,
                                          "midi_editor_manual_press", "none")
                           ELSE OwnedPort("BACKEND", -1, "midi_in", "none")
                    ELSE NullPort)
            [] id.type = "AUDIO" ->
                 (IF id.flow = "OUTPUT"
                    THEN StereoSide("BACKEND", -1, "stereo_out", id)
                  ELSE IF id.flow = "INPUT"
                    THEN StereoSide("BACKEND", -1, "stereo_in", id)
                  ELSE NullPort)
            [] OTHER -> NullPort)
    [] id.owner_type = "PLUGIN" ->
         (CASE id.flow = "INPUT" ->
                 OwnedPort("PLUGIN", id.track_pos, "in_ports", "none")
            [] id.flow = "OUTPUT" ->
                 OwnedPort("PLUGIN", id.track_pos, "out_ports", "none")
            [] OTHER ->
                 OwnedPort("PLUGIN", id.track_pos, "unknown_ports", "none"))
    [] id.owner_type = "TRACK" ->
         (CASE id.type = "EVENT" ->
                 (IF id.flow = "INPUT"
                    THEN IF "PIANO_ROLL" \in id.flags
                           THEN OwnedPort("TRACK", id.track_pos,
                                          "piano_roll", "none")
                           ELSE OwnedPort("TRACK", id.track_pos,
                                          "midi_in", "none")
                    ELSE NullPort)
            [] id.type = "AUDIO" ->
                 (IF id.flow = "OUTPUT"
                    THEN StereoSide("TRACK", id.track_pos, "stereo_out", id)
                  ELSE IF id.flow = "INPUT"
                    THEN StereoSide("TRACK", id.track_pos, "stereo_in", id)
                  ELSE NullPort)
            [] OTHER -> NullPort)
    [] id.owner_type \in {"FADER", "PREFADER"} ->
         (IF id.flow = "OUTPUT"
            THEN StereoSide(id.owner_type, id.track_pos, "stereo_out", id)
          ELSE IF id.flow = "INPUT"
            THEN (IF "STEREO_L" \in id.flags
                    THEN OwnedPort(id.owner_type, id.track_pos,
                                   "stereo_in", "r")
                  ELSE IF "STEREO_R" \in id.flags
                    THEN OwnedPort(id.owner_type, id.track_pos,
                                   "stereo_in", "r")
                  ELSE NullPort)
          ELSE NullPort)
    [] id.owner_type = "SAMPLE_PROCESSOR" ->
         StereoSide("SAMPLE_PROCESSOR", -1, "stereo_out", id)
    [] OTHER -> NullPort

\* port_init_loaded: each source and destination is looked up by its
\* identifier
PortInitLoaded ==
  /\ last.op = "loaded"
  /\ last' = [last EXCEPT
                !.op = "init_loaded",
                !.srcs  = [i \in 1 .. Len(last.src_ids) |->
                             PortFindFromIdentifier(last.src_ids[i])],
                !.dests = [i \in 1 .. Len(last.dest_ids) |->
                             PortFindFromIdentifier(last.dest_ids[i])]]
  /\ UNCHANGED <<ports, alive, nops>>

(***************************************************************************)
(* Port operations as actions                                              *)
(***************************************************************************)
NoOp == [op |-> "none", src |-> 0, dest |-> 0, ret |-> 0, had |-> FALSE]

InitPorts ==
  /\ ports = [p \in Ports |->
                PortNew(TypeOfPort(p),
                        IF TypeOfPort(p) = "CONTROL" THEN 1 ELSE 0)]
  /\ alive = Ports
  /\ last = NoOp
  /\ nops = 0

Connect_Unlocked(src, dest, locked) ==
  /\ nops < MaxOps
  /\ src \in alive /\ dest \in alive
  /\ LET r == PortConnect(ports, src, dest, 0)
     IN  /\ ports' = r.ports
         /\ last' = [op |-> "connect", src |-> src, dest |-> dest,
                     ret |-> r.ret,
                     had |-> ArrayContains(ports[src].dests, dest)]
  /\ nops' = nops + 1
  /\ UNCHANGED alive

Connect(src, dest, locked) ==
  /\ nops < MaxOps
  /\ src \in alive /\ dest \in alive
  /\ LET r == PortConnect(ports, src, dest, locked)
     IN  /\ ports' = r.ports
         /\ last' = [op |-> "connect", src |-> src, dest |-> dest,
                     ret |-> r.ret,
                     had |-> ArrayContains(ports[src].dests, dest)]
  /\ nops' = nops + 1
  /\ UNCHANGED alive

Disconnect(src, dest) ==
  /\ nops < MaxOps
  /\ src \in alive /\ dest \in alive
  /\ ports' = PortDisconnect(ports, src, dest)
  /\ last' = [op |-> "disconnect", src |-> src, dest |-> dest, ret |-> 0,
              had |-> ArrayContains(ports[src].dests, dest)]
  /\ nops' = nops + 1
  /\ UNCHANGED alive

DisconnectAll(port) ==
  /\ nops < MaxOps
  /\ port \in alive
  /\ ports' = PortDisconnectAll(ports, port)
  /\ last' = [op |-> "disconnect_all", src |-> port, dest |-> 0,
              ret |-> 0,
              had |-> (ports[port].srcs # << >> \/ ports[port].dests # << >>)]
  /\ nops' = nops + 1
  /\ UNCHANGED alive

CanConnect(src, dest) ==
  /\ nops < MaxOps
  /\ src \in alive /\ dest \in alive
  /\ last' = [op |-> "can_connect", src |-> src, dest |-> dest,
              ret |-> PortsCanBeConnected(ports, src, dest),
              had |-> ArrayContains(ports[src].dests, dest)]
  /\ nops' = nops + 1
  /\ UNCHANGED <<ports, alive>>

\* ports_remove / port_free: warns when the port still has connections
\* (g_warn_if_fail) and frees it all the same
PortFree(port) ==
  /\ nops < MaxOps
  /\ port \in alive
  /\ alive' = alive \ {port}
  /\ last' = [op |-> "free", src |-> port, dest |-> 0, ret |-> 0,
              had |-> (ports[port].srcs # << >> \/ ports[port].dests # << >>)]
  /\ nops' = nops + 1
  /\ UNCHANGED ports

NoSum == [port |-> 0, start_frame |-> 0, nframes |-> 0, noroll |-> FALSE]

\* a project whose ports are all audio ports, buffers zeroed by calloc
InitAudioPorts ==
  /\ ports = [p \in Ports |-> PortNew("AUDIO", 0)]
  /\ alive = Ports
  /\ last = NoOp
  /\ nops = 0

InitBufs ==
  /\ bufs = [p \in Ports |-> [l \in Frames |-> 0]]
  /\ sum_call = NoSum

\* the owner of the port (plugin, track processor) fills its block
WriteBuf(port, data) ==
  /\ nops < MaxOps
  /\ port \in alive
  /\ bufs' = [bufs EXCEPT ![port] = data]
  /\ last' = [op |-> "write", src |-> port, dest |-> 0, ret |-> 0,
              had |-> FALSE]
  /\ nops' = nops + 1
  /\ UNCHANGED <<ports, alive, sum_call>>

\* the router processes the port: port_sum_signal_from_inputs with a
\* range inside the block (start_frame + nframes <= AUDIO_ENGINE->nframes)
SumSignal(port, start_frame, nframes, noroll) ==
  /\ nops < MaxOps
  /\ port \in alive
  /\ start_frame + nframes <= BlockLength
  /\ bufs' = PortSumSignalFromInputs(ports, bufs, port, start_frame,
                                     nframes, noroll)
  /\ sum_call' = [port |-> port, start_frame |-> start_frame,
                  nframes |-> nframes, noroll |-> noroll]
  /\ ports' = PortSumControlFromInputs(ports, bufs, port)
  /\ last' = [op |-> "sum", src |-> port, dest |-> 0, ret |-> 0,
              had |-> ports[port].srcs # << >>]
  /\ nops' = nops + 1
  /\ UNCHANGED alive

vars == <<ports, alive, last, nops, tracks, mgr, regions, undo, event_queue,
          pool_avail, consumer_pc, ncycles, nev, step, dispatched,
          bufs, sum_call, playhead, ev_data, region_data, cycles, tl_step>>

(***************************************************************************)
(* recording_manager.c: the audio thread (recording_manager_handle_        *)
(* recording)                                                              *)
(***************************************************************************)
\* records pre-allocated by recording_manager_new
PoolSize == 200

TrackCtlTypes == {"START_TRACK_RECORDING", "SPLIT_TRACK_RECORDING",
                  "STOP_TRACK_RECORDING"}
DataTypes == {"MIDI", "AUDIO"}

\* track_type_can_record / track_has_piano_roll for the project's tracks
TrackTypeCanRecord(t) == TrackType(t) \in {"MIDI", "AUDIO"}
TrackHasPianoRoll_Never(t) == FALSE

TrackHasPianoRoll(t) == TrackType(t) = "MIDI"
\* tr->in_signal_type
TrackInSignalType(t) == IF TrackType(t) = "MIDI" THEN "EVENT" ELSE "AUDIO"
\* atl->num_ats: the instrument track carries one automation track
NumAts(t) == IF t = 1 THEN 1 ELSE 0

\* a RecordingEvent as filled in by handle_recording
Event(type, t, has_midi, note) ==
  [type |-> type, track |-> t, has_midi_event |-> has_midi, note |-> note]

\* lines 215-226
InsidePunchRange_PunchOnly(in) == in.punch_mode /\ in.punch_inside

InsidePunchRange(in) == IF in.punch_mode THEN in.punch_inside ELSE TRUE

\* lines 228-231: the condition under which recording stops
StopCondition(in) ==
  \/ ~ in.transport_recording
  \/ ~ in.tr_recording
  \/ ~ in.rolling
  \/ ~ InsidePunchRange(in)

\* lines 228-291: Stop / Split / Start of the track
TrackCtlEvents_NoStop(T, t, in) ==
  IF StopCondition(in)
    THEN << >>
    ELSE IF InsidePunchRange(in) /\ TrackTypeCanRecord(t)
           THEN IF in.reached_loop_end /\ T[t].recording_region # 0
                  THEN << Event("SPLIT_TRACK_RECORDING", t, 0, 0) >>
                  ELSE IF T[t].recording_region = 0
                         THEN << Event("START_TRACK_RECORDING", t, 0, 0) >>
                         ELSE << >>
           ELSE << >>

TrackCtlEvents_NoRegionTest(T, t, in) ==
  IF StopCondition(in)
    THEN IF TrackTypeCanRecord(t)
           THEN << Event("STOP_TRACK_RECORDING", t, 0, 0) >>
           ELSE << >>
    ELSE IF InsidePunchRange(in) /\ TrackTypeCanRecord(t)
           THEN IF in.reached_loop_end /\ T[t].recording_region # 0
                  THEN << Event("SPLIT_TRACK_RECORDING", t, 0, 0) >>
                  ELSE IF T[t].recording_region = 0
                         THEN << Event("START_TRACK_RECORDING", t, 0, 0) >>
                         ELSE << >>
           ELSE << >>

TrackCtlEvents(T, t, in) ==
  IF StopCondition(in)
    THEN IF TrackTypeCanRecord(t) /\ T[t].recording_region # 0
           THEN << Event("STOP_TRACK_RECORDING", t, 0, 0) >>
           ELSE << >>
    ELSE IF InsidePunchRange(in) /\ TrackTypeCanRecord(t)
           THEN IF in.reached_loop_end /\ T[t].recording_region # 0
                  THEN << Event("SPLIT_TRACK_RECORDING", t, 0, 0) >>
                  ELSE IF T[t].recording_region = 0
                         THEN << Event("START_TRACK_RECORDING", t, 0, 0) >>
                         ELSE << >>
           ELSE << >>

\* lines 296-300, 316-319: the automation track is to be recorded in this
\* cycle
AtShouldRecord(t, in) ==
  NumAts(t) > 0 /\ in.rolling /\ InsidePunchRange(in) /\ in.at_should

\* lines 293-384: the automation tracks of the track
AutomationEvents_Armed(T, t, in) ==
  IF NumAts(t) = 0 \/ ~ (in.transport_recording /\ in.tr_recording)
    THEN << >>
  ELSE
    LET should == AtShouldRecord(t, in)
        stop   == IF ~ should /\ T[t].at_recording_started
                    THEN << Event("STOP_AUTOMATION_RECORDING", t, 0, 0) >>
                    ELSE << >>
        at_split == T[t].at_recording_started /\ in.reached_loop_end
        ctl    == IF at_split
                    THEN << Event("SPLIT_AUTOMATION_RECORDING", t, 0, 0) >>
                    ELSE IF ~ T[t].at_recording_started
                           THEN << Event("START_AUTOMATION_RECORDING",
                                         t, 0, 0) >>
                           ELSE << >>
        sample == IF ~ at_split
                    THEN << Event("AUTOMATION", t, 0, 0) >>
                    ELSE << >>
    IN  IF should THEN stop \o ctl \o sample ELSE stop

AutomationEvents(T, t, in) ==
  IF NumAts(t) = 0 THEN << >>
  ELSE
    LET should == AtShouldRecord(t, in)
        stop   == IF ~ should /\ T[t].at_recording_started
                    THEN << Event("STOP_AUTOMATION_RECORDING", t, 0, 0) >>
                    ELSE << >>
        at_split == T[t].at_recording_started /\ in.reached_loop_end
        ctl    == IF at_split
                    THEN << Event("SPLIT_AUTOMATION_RECORDING", t, 0, 0) >>
                    ELSE IF ~ T[t].at_recording_started
                           THEN << Event("START_AUTOMATION_RECORDING",
                                         t, 0, 0) >>
                           ELSE << >>
        sample == IF ~ at_split
                    THEN << Event("AUTOMATION", t, 0, 0) >>
                    ELSE << >>
    IN  IF should THEN stop \o ctl \o sample ELSE stop

\* lines 386-457: the recorded material of the cycle
DataEvents_NoStopTest(t, in) ==
  IF TrackHasPianoRoll(t)
    THEN IF in.num_midi = 0
           THEN << Event("MIDI", t, 0, 0) >>
           ELSE [i \in 1 .. in.num_midi |-> Event("MIDI", t, 1, i)]
    ELSE IF TrackType(t) = "AUDIO"
           THEN << Event("AUDIO", t, 0, 0) >>
           ELSE << >>

DataEvents(t, in) ==
  IF StopCondition(in) THEN << >>
  ELSE IF TrackHasPianoRoll(t)
         THEN IF in.num_midi = 0
                THEN << Event("MIDI", t, 0, 0) >>
                ELSE [i \in 1 .. in.num_midi |-> Event("MIDI", t, 1, i)]
         ELSE IF TrackType(t) = "AUDIO"
                THEN << Event("AUDIO", t, 0, 0) >>
                ELSE << >>

\* the events one call pushes, in the order of the pushes
HandleRecordingEvents_DataFirst(T, t, in) ==
  DataEvents(t, in) \o TrackCtlEvents(T, t, in) \o AutomationEvents(T, t, in)

HandleRecordingEvents(T, t, in) ==
  TrackCtlEvents(T, t, in) \o AutomationEvents(T, t, in) \o DataEvents(t, in)

\* object_pool_get / object_pool_return: k records leave / rejoin the pool
ObjectPoolGet(avail, k) == avail - k
ObjectPoolReturn(avail, k) == avail + k

\* the values of RecordingEventType
EventTypes ==
  TrackCtlTypes \cup DataTypes
    \cup {"AUTOMATION", "START_AUTOMATION_RECORDING",
          "SPLIT_AUTOMATION_RECORDING", "STOP_AUTOMATION_RECORDING"}

\* events_process, lines 1325-1329 and 1416-1417: the number of records
\* handed back to the pool for a dequeued event; an event whose type is
\* negative (none of the enumerators) is skipped by `continue'
RecordsReturned_Never(ev) == 0

RecordsReturned(ev) == IF ev.type \notin EventTypes THEN 0 ELSE 1

\* recording_event_queue_push_back_event / dequeue_event: FIFO queue
QueuePushBack(q, evs) == q \o evs
QueueFront(q) == Head(q)
QueuePopFront(q) == Tail(q)

(***************************************************************************)
(* recording_manager.c: the consumer (events_process and its handlers)     *)
(***************************************************************************)
\* add_recorded_id
AddRecordedId(S, id) ==
  [S EXCEPT !.mgr.recorded_ids = Append(@, id)]

\* track_add_region of a new region: the identifier is the next free one
NewRegion(S, t, type) ==
  [S EXCEPT !.regions = Append(@, [track |-> t, type |-> type])]
NewRegionId(S) == Len(S.regions) + 1

\* free_temp_selections
FreeTempSelections(S) ==
  [S EXCEPT !.mgr.selections_before_start_track = FALSE,
            !.mgr.selections_before_start_automation = FALSE]

\* on_stop_recording: selects the recorded regions of the kind that stopped,
\* performs one record action from the snapshot, frees both snapshots
OnStopRecording(S, is_automation) ==
  LET ids == S.mgr.recorded_ids
      sel == {ids[i] : i \in {j \in 1 .. Len(ids) :
                (S.regions[ids[j]].type = "AUTOMATION") = is_automation}}
      act == [is_automation |-> is_automation,
              before_set |-> IF is_automation
                       THEN S.mgr.selections_before_start_automation
                       ELSE S.mgr.selections_before_start_track,
              selected |-> sel]
  IN  FreeTempSelections([S EXCEPT !.undo = Append(@, act)])

\* handle_start_recording
HandleStartRecording_Again(S, ev, is_automation) ==
  LET t  == ev.track
      S1 == IF is_automation
              THEN [S EXCEPT !.mgr.selections_before_start_automation = TRUE]
              ELSE [S EXCEPT !.mgr.selections_before_start_track = TRUE]
  IN  IF is_automation
        THEN S1
        ELSE IF TrackHasPianoRoll(t) \/ TrackType(t) = "AUDIO"
               THEN LET id == NewRegionId(S1)
                        S2 == NewRegion(S1, t, TrackType(t))
                        S3 == [S2 EXCEPT !.tracks[t].recording_region = id]
                    IN  AddRecordedId(S3, id)
               ELSE S1

HandleStartRecording(S, ev, is_automation) ==
  LET t  == ev.track
      S1 == IF is_automation
              THEN [S EXCEPT !.mgr.selections_before_start_automation = TRUE]
              ELSE [S EXCEPT !.mgr.selections_before_start_track = TRUE]
  IN  IF S1.tracks[t].recording_region # 0 /\ ~ is_automation
        THEN S1
        ELSE IF is_automation
               THEN S1
               ELSE IF TrackHasPianoRoll(t) \/ TrackType(t) = "AUDIO"
                      THEN LET id == NewRegionId(S1)
                               S2 == NewRegion(S1, t, TrackType(t))
                               S3 == [S2 EXCEPT
                                        !.tracks[t].recording_region = id]
                           IN  AddRecordedId(S3, id)
                      ELSE S1

\* handle_split_event, SPLIT_TRACK_RECORDING branch
HandleSplitTrack_KeepsRegion(S, ev) ==
  LET t == ev.track
  IN  IF S.tracks[t].recording_region = 0 THEN S
      ELSE IF TrackInSignalType(t) \in {"EVENT", "AUDIO"}
             THEN AddRecordedId(NewRegion(S, t, TrackType(t)),
                                NewRegionId(S))
             ELSE S

HandleSplitTrack(S, ev) ==
  LET t == ev.track
  IN  IF S.tracks[t].recording_region = 0 THEN S
      ELSE IF TrackInSignalType(t) \in {"EVENT", "AUDIO"}
             THEN LET id == NewRegionId(S)
                      S1 == NewRegion(S, t, TrackType(t))
                      S2 == AddRecordedId(S1, id)
                  IN  [S2 EXCEPT !.tracks[t].recording_region = id]
             ELSE S

\* automation_track_get_region_before_pos: no region, or one of the
\* automation regions of the track, depending on the position asked for
AtRegionsBeforePos(S, t) ==
  {0} \cup {i \in 1 .. Len(S.regions) :
              S.regions[i].track = t /\ S.regions[i].type = "AUTOMATION"}

\* handle_split_event, SPLIT_AUTOMATION_RECORDING branch
\*   before : the region found before the loop end
\*   found  : the region found at the loop start
\*   should : automation_track_should_be_recording (at, cur_time, false)
HandleSplitAutomation(S, ev, before, found, should) ==
  LET t  == ev.track
      S1 == [S EXCEPT !.tracks[t].at_recording_region = before]
      create == found = 0 /\ should
      new_region == IF create THEN NewRegionId(S1) ELSE found
      S2 == IF create THEN NewRegion(S1, t, "AUTOMATION") ELSE S1
  IN  IF new_region # 0 THEN AddRecordedId(S2, new_region) ELSE S2

\* handle_automation_event
\*   found   : the region found at the start position
\*   changed : automation_value_changed
HandleAutomationEvent(S, ev, found, changed) ==
  LET t  == ev.track
      create == found = 0 /\ changed
      region == IF create THEN NewRegionId(S) ELSE found
      S1 == IF create
              THEN AddRecordedId(NewRegion(S, t, "AUTOMATION"), region)
              ELSE S
  IN  [S1 EXCEPT !.tracks[t].at_recording_region = region]

\* what the handlers of AUTOMATION and SPLIT_AUTOMATION_RECORDING read
\* besides the regions found:
\*   changed    : automation_value_changed
\*   mode       : at->record_mode
\*   should     : automation_track_should_be_recording (at, cur_time, false)
\*   should_aps : automation_track_should_be_recording (at, cur_time, true)
\* latch mode is armed all the time, and points are to be recorded only
\* while the automation is to be recorded
AtEnvs ==
  {x \in [changed : BOOLEAN, mode : {"TOUCH", "LATCH"},
           should : BOOLEAN, should_aps : BOOLEAN] :
     /\ x.mode = "LATCH" => (x.should /\ x.should_aps)
     /\ x.should_aps => x.should}

\* handle_automation_event: the region pointers the handler dereferences, 0
\* for NULL
\*   found : the region found at the start position
HandleAutomationEventUses(S, found, x) ==
  LET create == found = 0 /\ x.changed
      region == IF create THEN NewRegionId(S) ELSE found
      end_set == IF create THEN {region} ELSE {}
      sample  == IF x.changed THEN {region}
                 ELSE IF x.mode = "LATCH" THEN {region} ELSE {}
      left_touch == IF x.mode = "TOUCH" /\ ~ x.should_aps
                      THEN {region} ELSE {}
  IN  end_set \cup sample \cup left_touch

\* handle_split_event, SPLIT_AUTOMATION_RECORDING branch: the region
\* pointers the handler dereferences, 0 for NULL
\*   before : the region found before the loop end
\*   found  : the region found at the loop start
HandleSplitAutomationUses(S, before, found, x) ==
  LET new_region == IF found = 0 /\ x.should THEN NewRegionId(S) ELSE found
      end_set == IF before # 0 THEN {before} ELSE {}
      tail    == IF before # 0 /\ x.changed THEN {before} ELSE {}
      at_loop_start == IF x.should_aps THEN {new_region} ELSE {}
      left_touch == IF x.mode = "TOUCH" /\ ~ x.should_aps
                      THEN {before} ELSE {}
  IN  end_set \cup tail \cup at_loop_start \cup left_touch

\* handle_midi_event / handle_audio_event: return when the track has no
\* recording region, else extend it (tr->recording_region is written back
\* unchanged)
HandleDataEvent(S, ev) == S

\* events_process: the switch over the type of one dequeued event
\*   env : what the handlers read from outside the recording state
Dispatch(S, ev, env) ==
  LET t == ev.track
  IN  CASE ev.type \in DataTypes -> HandleDataEvent(S, ev)
        [] ev.type = "AUTOMATION" ->
             HandleAutomationEvent(S, ev, env.found, env.changed)
        [] ev.type = "SPLIT_TRACK_RECORDING" -> HandleSplitTrack(S, ev)
        [] ev.type = "SPLIT_AUTOMATION_RECORDING" ->
             HandleSplitAutomation(S, ev, env.before, env.found, env.should)
        [] ev.type = "STOP_TRACK_RECORDING" ->
             LET S1 == IF S.mgr.is_recording
                         THEN OnStopRecording(S, FALSE) ELSE S
             IN  [S1 EXCEPT !.mgr.is_recording = FALSE,
                            !.tracks[t].recording_region = 0]
        [] ev.type = "STOP_AUTOMATION_RECORDING" ->
             LET S1 == IF S.tracks[t].at_recording_started
                         THEN OnStopRecording(S, TRUE) ELSE S
             IN  [S1 EXCEPT !.tracks[t].at_recording_started = FALSE,
                            !.tracks[t].at_recording_region = 0]
        [] ev.type = "START_TRACK_RECORDING" ->
             LET S1 == IF ~ S.mgr.is_recording
                         THEN [S EXCEPT !.mgr.recorded_ids = << >>]
                         ELSE S
                 S2 == [S1 EXCEPT !.mgr.is_recording = TRUE]
             IN  HandleStartRecording(S2, ev, FALSE)
        [] ev.type = "START_AUTOMATION_RECORDING" ->
             LET S1 == IF ~ S.tracks[t].at_recording_started
                         THEN HandleStartRecording(S, ev, TRUE)
                         ELSE S
             IN  [S1 EXCEPT !.tracks[t].at_recording_started = TRUE]
        [] OTHER -> S

(***************************************************************************)
(* recording_manager.c: what the handlers do to the regions of the         *)
(* timeline (positions in frames, lanes, MIDI notes)                       *)
(***************************************************************************)
NoMidi == [type |-> "NONE", pitch |-> 0]
NoteOn(p) == [type |-> "NOTE_ON", pitch |-> p]
NoteOff(p) == [type |-> "NOTE_OFF", pitch |-> p]

\* midi_region_new (start_pos, end_pos, track_pos, lane_pos, idx)
MidiRegionNew(t, start_frames, end_frames, lane_pos) ==
  [track_pos |-> t, pos |-> start_frames, end_pos |-> end_frames,
   lane_pos |-> lane_pos, notes |-> << >>, unended |-> << >>]

\* tr->num_lanes: a track starts with one lane, and track_add_region makes
\* the lane it is given exist
TrackNumLanes(D, t) ==
  LET used == {D[i].lane_pos + 1 : i \in {j \in 1 .. Len(D) :
                                           D[j].track_pos = t}}
  IN  IF used = {} THEN 1
      ELSE CHOOSE n \in used : \A m \in used : m <= n

\* transport_is_loop_point_met (start_frames, nframes): false for a range
\* that ends before the loop end; either answer for a range that reaches it
LoopPointMetOutcomes(d) ==
  IF d.g_start_frames + d.local_offset + d.nframes < LoopEndFrames
    THEN {FALSE} ELSE BOOLEAN

\* midi_region_start_unended_note: a note [pos, end_pos) of the pitch is
\* added to the region and to its unended notes
MidiRegionStartUnendedNote(R, pos, end_pos, pitch) ==
  [R EXCEPT !.notes = Append(@, [pitch |-> pitch, pos |-> pos,
                                 end_pos |-> end_pos]),
            !.unended = Append(@, Len(R.notes) + 1)]

\* midi_region_pop_unended_note: removes from the unended notes the note
\* opened last among those of the pitch (of any pitch for -1) and returns
\* it, 0 when there is none
MidiRegionPopUnendedNote(R, pitch) ==
  LET cand == {k \in 1 .. Len(R.unended) :
                 pitch = -1 \/ R.notes[R.unended[k]].pitch = pitch}
  IN  IF cand = {} THEN [region |-> R, mn |-> 0]
      ELSE LET k == CHOOSE x \in cand : \A y \in cand : y <= x
           IN  [region |-> [R EXCEPT !.unended =
                              SubSeq(@, 1, k - 1)
                                \o SubSeq(@, k + 1, Len(@))],
                mn |-> R.unended[k]]

\* handle_split_event, lines 732-740: while a note can be popped, its end
\* is set to the loop end
RECURSIVE EndUnendedNotes(_, _)
EndUnendedNotes(R, r_loop_end) ==
  LET p == MidiRegionPopUnendedNote(R, -1)
  IN  IF p.mn = 0 THEN R
      ELSE EndUnendedNotes(
             [p.region EXCEPT !.notes[p.mn].end_pos = r_loop_end],
             r_loop_end)

\* handle_start_recording, lines 1213-1289 (instrument track)
TlHandleStartRecording(D, T, ev, d, loop_met) ==
  IF T[ev.track].recording_region # 0 THEN D
  ELSE LET start0 == d.g_start_frames + d.local_offset
           end0   == start0 + d.nframes
           start_frames == IF loop_met THEN LoopStartFrames ELSE start0
           end_frames   == IF loop_met
                             THEN (end0 - LoopEndFrames) + start_frames
                             ELSE end0
           new_lane_pos == TrackNumLanes(D, ev.track) - 1
       IN  Append(D, MidiRegionNew(ev.track, start_frames, end_frames,
                                   new_lane_pos))

\* handle_split_event, lines 682-740: SPLIT_TRACK_RECORDING of a track
\* whose input is MIDI
TlHandleSplitTrack_KeepsOpen(D, T, ev, d) ==
  LET r == T[ev.track].recording_region
  IN  IF r = 0 THEN D
      ELSE Append([D EXCEPT ![r].end_pos = LoopEndFrames],
                  MidiRegionNew(ev.track, LoopStartFrames,
                                LoopStartFrames + 1, D[r].lane_pos + 1))

TlHandleSplitTrack(D, T, ev, d) ==
  LET r == T[ev.track].recording_region
  IN  IF r = 0 THEN D
      ELSE LET D1 == [D EXCEPT ![r].end_pos = LoopEndFrames]
               r_loop_end == LoopEndFrames - D1[r].pos
               new_lane_pos == D1[r].lane_pos + 1
               D2 == Append(D1, MidiRegionNew(ev.track, LoopStartFrames,
                                              LoopStartFrames + 1,
                                              new_lane_pos))
           IN  [D2 EXCEPT ![r] = EndUnendedNotes(@, r_loop_end)]

\* handle_midi_event
TlHandleMidiEvent_EndAtStart(D, T, ev, d) ==
  LET r == T[ev.track].recording_region
      start_frames == d.g_start_frames + d.local_offset
      end_frames   == start_frames + d.nframes
  IN  IF r = 0 THEN D
      ELSE LET D1 == [D EXCEPT ![r].end_pos = end_frames]
               local_pos     == start_frames - D1[r].pos
               local_end_pos == end_frames - D1[r].pos
           IN  IF ev.has_midi_event = 0 THEN D1
               ELSE IF d.midi_event.type = "NOTE_ON"
                 THEN [D1 EXCEPT ![r] =
                         MidiRegionStartUnendedNote(
                           @, local_pos, local_end_pos, d.midi_event.pitch)]
               ELSE IF d.midi_event.type = "NOTE_OFF"
                 THEN LET p == MidiRegionPopUnendedNote(
                                 D1[r], d.midi_event.pitch)
                      IN  IF p.mn # 0
                            THEN [D1 EXCEPT ![r] =
                                    [p.region EXCEPT
                                       !.notes[p.mn].end_pos = local_pos]]
                            ELSE D1
               ELSE D1

TlHandleMidiEvent(D, T, ev, d) ==
  LET r == T[ev.track].recording_region
      start_frames == d.g_start_frames + d.local_offset
      end_frames   == start_frames + d.nframes
  IN  IF r = 0 THEN D
      ELSE LET D1 == [D EXCEPT ![r].end_pos = end_frames]
               local_pos     == start_frames - D1[r].pos
               local_end_pos == end_frames - D1[r].pos
           IN  IF ev.has_midi_event = 0 THEN D1
               ELSE IF d.midi_event.type = "NOTE_ON"
                 THEN [D1 EXCEPT ![r] =
                         MidiRegionStartUnendedNote(
                           @, local_pos, local_end_pos, d.midi_event.pitch)]
               ELSE IF d.midi_event.type = "NOTE_OFF"
                 THEN LET p == MidiRegionPopUnendedNote(
                                 D1[r], d.midi_event.pitch)
                      IN  IF p.mn # 0
                            THEN [D1 EXCEPT ![r] =
                                    [p.region EXCEPT
                                       !.notes[p.mn].end_pos =
                                          local_end_pos]]
                            ELSE D1
               ELSE D1

\* audio_region_new (..., nframes, 2, pos, ...): a region of nframes frames
\* at pos with a clip of as many frames; has_frames tells whether
\* handle_audio_event has sized the clip since
AudioRegionNew(t, start_frames, nframes, lane_pos) ==
  [track_pos |-> t, pos |-> start_frames, end_pos |-> start_frames + nframes,
   lane_pos |-> lane_pos, num_frames |-> nframes, has_frames |-> FALSE]

\* handle_start_recording, lines 1290-1306: the region of an audio track
AuHandleStartRecording(D, T, ev, d, loop_met) ==
  IF T[ev.track].recording_region # 0 THEN D
  ELSE LET start0 == d.g_start_frames + d.local_offset
           start_frames == IF loop_met THEN LoopStartFrames ELSE start0
           new_lane_pos == TrackNumLanes(D, ev.track) - 1
       IN  Append(D, AudioRegionNew(ev.track, start_frames, d.nframes,
                                    new_lane_pos))

\* handle_split_event, lines 682-700 and 741-792: SPLIT_TRACK_RECORDING of
\* a track whose input is audio
AuHandleSplitTrack(D, T, ev, d) ==
  LET r == T[ev.track].recording_region
  IN  IF r = 0 THEN D
      ELSE LET D1 == [D EXCEPT ![r].end_pos = LoopEndFrames,
                               ![r].num_frames = LoopEndFrames - D[r].pos]
               new_lane_pos == D1[r].lane_pos + 1
           IN  Append(D1, AudioRegionNew(ev.track, LoopStartFrames, 1,
                                         new_lane_pos))

\* handle_audio_event: the region ends where the event ends and the clip is
\* resized to the length of the region
AuHandleAudioEvent(D, T, ev, d) ==
  LET r == T[ev.track].recording_region
      end_frames == d.g_start_frames + d.local_offset + d.nframes
  IN  IF r = 0 THEN D
      ELSE [D EXCEPT ![r].end_pos = end_frames,
                     ![r].num_frames = end_frames - D[r].pos,
                     ![r].has_frames = TRUE]

\* events_process: what the handlers of the event do to the regions of an
\* audio track
AudioDispatch(D, T, ev, d, loop_met) ==
  CASE ev.type = "AUDIO" -> AuHandleAudioEvent(D, T, ev, d)
    [] ev.type = "START_TRACK_RECORDING" ->
         AuHandleStartRecording(D, T, ev, d, loop_met)
    [] ev.type = "SPLIT_TRACK_RECORDING" -> AuHandleSplitTrack(D, T, ev, d)
    [] OTHER -> D

\* channels of the clip of a recorded region: audio_region_new (..., 2, ...)
Channels == 2
\* what memory that has not been written yet may hold
UninitSamples == {0, -1}
\* the sample the input port of channel ch (0 left, 1 right) holds at frame
\* k of the cycle: track_processor->stereo_in->l->buf / r->buf
Captured(cycle, k, ch) == (cycle * BlockLength + k) * Channels + ch + 1

\* realloc (frames, n * sizeof (sample_t)): the first samples are kept and
\* the others hold whatever they held; a negative count fails
Realloc(frames, n, fill) ==
  IF n < 0 THEN << >>
  ELSE [j \in 1 .. n |-> IF j <= Len(frames) THEN frames[j] ELSE fill]

\* handle_audio_event, lines 499-555, on a region whose end is set: the clip
\* is resized and the samples of the event are stored from frame
\* start_frames - pos on, left at i * channels and right at
\* i * channels + 1; oob tells that a store fell outside the clip
ClipHandleAudioEvent(R, d, fill) ==
  LET frames1 == Realloc(R.frames, R.num_frames * Channels, fill)
      first   == d.g_start_frames + d.local_offset - R.pos
      Left(j)  == \E k \in 0 .. d.nframes - 1 : j - 1 = (first + k) * Channels
      Right(j) == \E k \in 0 .. d.nframes - 1 :
                    j - 1 = (first + k) * Channels + 1
  IN  [R EXCEPT
         !.frames =
            [j \in 1 .. Len(frames1) |->
               IF Left(j)
                 THEN d.lbuf[d.local_offset + ((j - 1) \div Channels) - first]
               ELSE IF Right(j)
                 THEN d.rbuf[d.local_offset + ((j - 1) \div Channels) - first]
               ELSE frames1[j]],
         !.oob = @ \/ first < 0 \/ R.num_frames < first + d.nframes]

\* handle_split_event, lines 744-769 and 795-821, on the region that ends at
\* the loop end: the clip is resized and for each frame of the event
\* ev->lbuf[i] and then ev->rbuf[i] are stored at
\* channels * clip_offset_before_loop, which is then incremented
ClipHandleSplit(R, d, fill) ==
  LET frames1 == Realloc(R.frames, R.num_frames * Channels, fill)
      first   == d.g_start_frames - R.pos
      Both(j) == \E k \in 0 .. d.nframes - 1 : j - 1 = Channels * (first + k)
  IN  [R EXCEPT
         !.frames =
            [j \in 1 .. Len(frames1) |->
               IF Both(j)
                 THEN d.rbuf[d.local_offset + ((j - 1) \div Channels) - first]
                 ELSE frames1[j]],
         !.oob = @ \/ first < 0 \/ R.num_frames < first + d.nframes]

\* events_process: what the handlers of the event do to the regions of an
\* audio track and to the frames of their clips; a region that is created
\* has a clip of num_frames frames
ClipDispatch(D, T, ev, d, loop_met, fill) ==
  LET G == AudioDispatch(D, T, ev, d, loop_met)
      r == T[ev.track].recording_region
  IN  [i \in 1 .. Len(G) |->
         IF i > Len(D)
           THEN G[i] @@ [frames |-> [j \in 1 .. G[i].num_frames * Channels
                                       |-> fill],
                         oob |-> FALSE]
         ELSE IF i # r THEN G[i]
         ELSE IF ev.type = "AUDIO" THEN ClipHandleAudioEvent(G[i], d, fill)
         ELSE IF ev.type = "SPLIT_TRACK_RECORDING"
           THEN ClipHandleSplit(G[i], d, fill)
         ELSE G[i]]

\* events_process: what the handler of the event does to the regions of
\* an instrument track (a Stop leaves them as they are)
TimelineDispatch(D, T, ev, d, loop_met) ==
  CASE ev.type = "MIDI" -> TlHandleMidiEvent(D, T, ev, d)
    [] ev.type = "START_TRACK_RECORDING" ->
         TlHandleStartRecording(D, T, ev, d, loop_met)
    [] ev.type = "SPLIT_TRACK_RECORDING" -> TlHandleSplitTrack(D, T, ev, d)
    [] OTHER -> D

(***************************************************************************)
(* The recording pipeline as actions                                       *)
(***************************************************************************)
NoStep == [kind |-> "none"]

\* the identifier g_timeout_add returns for the events_process source; 0
\* stands for no source
TimeoutSourceId == 1

\* recording_manager_new, and the tracks of a project that is not recording
InitRec ==
  /\ tracks = [t \in Tracks |->
                 [recording_region |-> 0,
                  at_recording_started |-> FALSE,
                  at_recording_region |-> 0]]
  /\ mgr = [is_recording |-> FALSE,
            recorded_ids |-> << >>,
            selections_before_start_track |-> FALSE,
            selections_before_start_automation |-> FALSE,
            source_id |-> TimeoutSourceId,
            freed |-> FALSE]
  /\ regions = << >>
  /\ undo = << >>
  /\ event_queue = << >>
  /\ pool_avail = PoolSize
  /\ consumer_pc = "idle"
  /\ ncycles = 0
  /\ nev = 0
  /\ step = NoStep
  /\ dispatched = << >>

\* what a handle_recording call reads from the transport, the track and the
\* track processor; a field the call never reads has one value
CycleInputs(t) ==
  {in \in [transport_recording : BOOLEAN, tr_recording : BOOLEAN,
           rolling : BOOLEAN, punch_mode : BOOLEAN, punch_inside : BOOLEAN,
           reached_loop_end : BOOLEAN, at_should : BOOLEAN,
           num_midi : 0 .. MaxMidi] :
     /\ ~ in.punch_mode => in.punch_inside
     /\ ~ in.transport_recording => in.tr_recording
     /\ (NumAts(t) = 0 \/ ~ in.rolling \/ ~ InsidePunchRange(in))
          => in.at_should
     /\ ~ TrackHasPianoRoll(t) => in.num_midi = 0}

\* the gating conditions of a cycle: recording armed globally, track armed,
\* transport rolling, and inside the punch range when punch mode is on
GatingHolds(in) ==
  /\ in.transport_recording
  /\ in.tr_recording
  /\ in.rolling
  /\ in.punch_mode => in.punch_inside

\* recording_manager_handle_recording for one track and one cycle
HandleRecordingCall_SetsStarted(t, in) ==
  /\ LET evs == HandleRecordingEvents(tracks, t, in)
         stamped == [i \in 1 .. Len(evs) |->
                       [type |-> evs[i].type, track |-> evs[i].track,
                        has_midi_event |-> evs[i].has_midi_event,
                        note |-> evs[i].note,
                        id |-> nev + i, cyc |-> ncycles + 1]]
     IN  /\ event_queue' = QueuePushBack(event_queue, stamped)
         /\ pool_avail' = ObjectPoolGet(pool_avail, Len(evs))
         /\ nev' = nev + Len(evs)
         /\ step' = [kind |-> "handle", track |-> t,
                     gating |-> GatingHolds(in),
                     reached_loop_end |-> in.reached_loop_end,
                     num_midi |-> in.num_midi,
                     had_region |-> tracks[t].recording_region # 0,
                     should |-> AtShouldRecord(t, in),
                     emitted |-> stamped]
  /\ ncycles' = ncycles + 1
  /\ tracks' = IF \E i \in 1 .. Len(HandleRecordingEvents(tracks, t, in)) :
                    HandleRecordingEvents(tracks, t, in)[i].type
                      = "START_AUTOMATION_RECORDING"
                  THEN [tracks EXCEPT ![t].at_recording_started = TRUE]
                  ELSE tracks
  /\ UNCHANGED <<mgr, regions, undo, consumer_pc, dispatched>>

HandleRecordingCall(t, in) ==
  /\ LET evs == HandleRecordingEvents(tracks, t, in)
         stamped == [i \in 1 .. Len(evs) |->
                       [type |-> evs[i].type, track |-> evs[i].track,
                        has_midi_event |-> evs[i].has_midi_event,
                        note |-> evs[i].note,
                        id |-> nev + i, cyc |-> ncycles + 1]]
     IN  /\ event_queue' = QueuePushBack(event_queue, stamped)
         /\ pool_avail' = ObjectPoolGet(pool_avail, Len(evs))
         /\ nev' = nev + Len(evs)
         /\ step' = [kind |-> "handle", track |-> t,
                     gating |-> GatingHolds(in),
                     reached_loop_end |-> in.reached_loop_end,
                     num_midi |-> in.num_midi,
                     had_region |-> tracks[t].recording_region # 0,
                     should |-> AtShouldRecord(t, in),
                     emitted |-> stamped]
  /\ ncycles' = ncycles + 1
  /\ UNCHANGED <<tracks, mgr, regions, undo, consumer_pc, dispatched>>

\* the number of records k calls of object_pool_get obtain: the pool holds
\* the records allocated by recording_manager_new and does not grow
ObjectPoolObtained(avail, k) == IF k <= avail THEN k ELSE avail

\* recording_manager_handle_recording when the pool runs out during the
\* call: the result of object_pool_get is written through and pushed with
\* no test. The events that obtained a record are pushed; at the first one
\* that did not, the write through the missing record either ends the
\* process or goes through, and then the event is pushed like the others
HandleRecordingExhausted(t, in) ==
  LET evs == HandleRecordingEvents(tracks, t, in)
      stamped == [i \in 1 .. Len(evs) |->
                    [type |-> evs[i].type, track |-> evs[i].track,
                     has_midi_event |-> evs[i].has_midi_event,
                     note |-> evs[i].note,
                     id |-> nev + i, cyc |-> ncycles + 1]]
      got == ObjectPoolObtained(pool_avail, Len(evs))
  IN  /\ Len(evs) > pool_avail
      /\ \E outcome \in {"aborted", "pushed"} :
           LET pushed == IF outcome = "aborted"
                           THEN SubSeq(stamped, 1, got) ELSE stamped
           IN  /\ event_queue' = QueuePushBack(event_queue, pushed)
               /\ nev' = nev + Len(pushed)
               /\ step' = [kind |-> "handle", track |-> t,
                           gating |-> GatingHolds(in),
                           reached_loop_end |-> in.reached_loop_end,
                           num_midi |-> in.num_midi,
                           had_region |-> tracks[t].recording_region # 0,
                           should |-> AtShouldRecord(t, in),
                           emitted |-> pushed]
               /\ consumer_pc' = IF outcome = "aborted" THEN "aborted"
                                                        ELSE consumer_pc
      /\ pool_avail' = pool_avail - got
      /\ ncycles' = ncycles + 1
      /\ UNCHANGED <<tracks, mgr, regions, undo, dispatched>>

\* the audio thread runs one more cycle
HandleRecording(t, in) ==
  /\ ncycles < MaxCycles
  /\ HandleRecordingCall(t, in)

\* what the handler of the event reads from outside the recording state: the
\* regions the automation track has at the positions asked for, whether the
\* automated value changed, automation_track_should_be_recording
DispatchEnvs(S, ev) ==
  [found   : IF ev.type \in {"AUTOMATION", "SPLIT_AUTOMATION_RECORDING"}
               THEN AtRegionsBeforePos(S, ev.track) ELSE {0},
   before  : IF ev.type = "SPLIT_AUTOMATION_RECORDING"
               THEN AtRegionsBeforePos(S, ev.track) ELSE {0},
   changed : IF ev.type = "AUTOMATION" THEN BOOLEAN ELSE {FALSE},
   should  : IF ev.type = "SPLIT_AUTOMATION_RECORDING"
               THEN BOOLEAN ELSE {FALSE}]

\* the g_timeout source fires: events_process is entered
EventsProcessStart ==
  /\ mgr.source_id # 0
  /\ consumer_pc = "idle"
  /\ consumer_pc' = "running"
  /\ step' = NoStep
  /\ UNCHANGED <<tracks, mgr, regions, undo, event_queue, pool_avail,
                 ncycles, nev, dispatched>>

\* one iteration of the while loop of events_process
EventsProcessEvent ==
  /\ consumer_pc = "running"
  /\ event_queue # << >>
  /\ LET ev == QueueFront(event_queue)
         S  == [tracks |-> tracks, mgr |-> mgr, regions |-> regions,
                undo |-> undo]
     IN  \E env \in DispatchEnvs(S, ev) :
           LET R == Dispatch(S, ev, env)
           IN  /\ tracks' = R.tracks
               /\ mgr' = R.mgr
               /\ regions' = R.regions
               /\ undo' = R.undo
               /\ step' = [kind |-> "dispatch", ev |-> ev,
                           region_before |->
                             tracks[ev.track].recording_region]
  /\ event_queue' = QueuePopFront(event_queue)
  /\ pool_avail' = ObjectPoolReturn(pool_avail,
                                    RecordsReturned(QueueFront(event_queue)))
  /\ dispatched' = Append(dispatched, QueueFront(event_queue).id)
  /\ UNCHANGED <<consumer_pc, ncycles, nev>>

\* the queue is empty: events_process returns G_SOURCE_CONTINUE
EventsProcessReturn_Early ==
  /\ consumer_pc = "running"
  /\ consumer_pc' = "idle"
  /\ step' = NoStep
  /\ UNCHANGED <<tracks, mgr, regions, undo, event_queue, pool_avail,
                 ncycles, nev, dispatched>>

EventsProcessReturn ==
  /\ consumer_pc = "running"
  /\ event_queue = << >>
  /\ consumer_pc' = "idle"
  /\ step' = NoStep
  /\ UNCHANGED <<tracks, mgr, regions, undo, event_queue, pool_avail,
                 ncycles, nev, dispatched>>

\* recording_manager_free, lines 1457-1460: the timer source is removed and
\* events_process is called on the thread of the caller
RecordingManagerFreeDrain ==
  /\ ~ mgr.freed
  /\ mgr.source_id # 0
  /\ consumer_pc = "idle"
  /\ mgr' = [mgr EXCEPT !.source_id = 0]
  /\ consumer_pc' = "running"
  /\ step' = NoStep
  /\ UNCHANGED <<tracks, regions, undo, event_queue, pool_avail,
                 ncycles, nev, dispatched>>

\* recording_manager_free, lines 1462-1472: events_process has returned;
\* the queue, the pool and the manager are freed
RecordingManagerFreeRelease ==
  /\ ~ mgr.freed
  /\ mgr.source_id = 0
  /\ consumer_pc = "idle"
  /\ mgr' = [mgr EXCEPT !.freed = TRUE]
  /\ step' = NoStep
  /\ UNCHANGED <<tracks, regions, undo, event_queue, pool_avail,
                 consumer_pc, ncycles, nev, dispatched>>

\* the audio thread runs a cycle while the manager is being torn down;
\* nothing in handle_recording reads the state of the teardown, and a call
\* after the release works on freed memory and is not followed
HandleRecordingDuringFree(t, in) ==
  /\ ~ mgr.freed
  /\ HandleRecording(t, in)

(***************************************************************************)
(* The timeline of the instrument track while the transport rolls          *)
(***************************************************************************)
\* MIDI messages the track processor holds in one cycle
MidiInputs ==
  {<< >>, <<NoteOn(60)>>, <<NoteOff(60)>>, <<NoteOn(62), NoteOff(62)>>}

\* the transport rolls with recording armed and no punch range; the track
\* is armed or not; the cycle that ends at the loop end is the loop-end
\* tail; no automation is armed; the messages are read in armed cycles only
TlInput(armed, m) ==
  [transport_recording |-> TRUE, tr_recording |-> armed, rolling |-> TRUE,
   punch_mode |-> FALSE, punch_inside |-> TRUE,
   reached_loop_end |-> (playhead + BlockLength = LoopEndFrames),
   at_should |-> FALSE, num_midi |-> Len(m), midi |-> m]

TlInputs ==
  {TlInput(TRUE, m) : m \in MidiInputs} \cup {TlInput(FALSE, << >>)}

\* one engine cycle of BlockLength frames at the playhead: handle_recording
\* stamps every event with g_start_frames, local_offset, nframes and copies
\* the MIDI message into a Midi event; the transport then moves on, back to
\* the loop start after the loop-end tail
TimelineCycle(in) ==
  /\ ncycles < MaxTlCycles
  /\ HandleRecordingCall(TlTrack, in)
  /\ LET evs == HandleRecordingEvents(tracks, TlTrack, in)
     IN  ev_data' = ev_data \o
           [i \in 1 .. Len(evs) |->
              [g_start_frames |-> playhead, local_offset |-> 0,
               nframes |-> BlockLength,
               midi_event |-> IF evs[i].type = "MIDI"
                                   /\ evs[i].has_midi_event = 1
                                THEN in.midi[evs[i].note] ELSE NoMidi]]
  /\ playhead' = IF in.reached_loop_end THEN LoopStartFrames
                                        ELSE playhead + BlockLength
  /\ cycles' = Append(cycles,
                      [start |-> playhead, end |-> playhead + BlockLength,
                       gating |-> GatingHolds(in),
                       tail |-> in.reached_loop_end, midi |-> in.midi])
  /\ UNCHANGED <<region_data, tl_step>>

\* one iteration of events_process, with what it does to the regions
TimelineEvent ==
  /\ EventsProcessEvent
  /\ LET ev == QueueFront(event_queue)
         d  == Head(ev_data)
         r  == tracks[ev.track].recording_region
     IN  /\ \E loop_met \in (IF ev.type = "START_TRACK_RECORDING" /\ r = 0
                               THEN LoopPointMetOutcomes(d) ELSE {FALSE}) :
               region_data' =
                 TimelineDispatch(region_data, tracks, ev, d, loop_met)
         /\ tl_step' = [kind |-> "dispatch",
                        open_before |-> IF r = 0 THEN 0
                                        ELSE Len(region_data[r].unended)]
  /\ ev_data' = Tail(ev_data)
  /\ UNCHANGED <<playhead, cycles>>

\* what a cycle of the audio track reads while the transport rolls
AuInput(armed) ==
  [transport_recording |-> TRUE, tr_recording |-> armed, rolling |-> TRUE,
   punch_mode |-> FALSE, punch_inside |-> TRUE,
   reached_loop_end |-> (playhead + BlockLength = LoopEndFrames),
   at_should |-> TRUE, num_midi |-> 0]

\* one engine cycle of BlockLength frames at the playhead for the audio
\* track
AudioCycle(in) ==
  /\ ncycles < MaxTlCycles
  /\ HandleRecordingCall(AuTrack, in)
  /\ LET evs == HandleRecordingEvents(tracks, AuTrack, in)
     IN  ev_data' = ev_data \o
           [i \in 1 .. Len(evs) |->
              [g_start_frames |-> playhead, local_offset |-> 0,
               nframes |-> BlockLength, midi_event |-> NoMidi]]
  /\ playhead' = IF in.reached_loop_end THEN LoopStartFrames
                                        ELSE playhead + BlockLength
  /\ cycles' = Append(cycles,
                      [start |-> playhead, end |-> playhead + BlockLength,
                       gating |-> GatingHolds(in),
                       tail |-> in.reached_loop_end, midi |-> << >>])
  /\ UNCHANGED <<region_data, tl_step>>

\* one iteration of events_process, with what it does to the regions of the
\* audio track
AudioEvent ==
  /\ EventsProcessEvent
  /\ LET ev == QueueFront(event_queue)
         d  == Head(ev_data)
         r  == tracks[ev.track].recording_region
     IN  /\ \E loop_met \in (IF ev.type = "START_TRACK_RECORDING" /\ r = 0
                               THEN LoopPointMetOutcomes(d) ELSE {FALSE}) :
               region_data' =
                 AudioDispatch(region_data, tracks, ev, d, loop_met)
         /\ tl_step' = [kind |-> "dispatch", open_before |-> 0]
  /\ ev_data' = Tail(ev_data)
  /\ UNCHANGED <<playhead, cycles>>

\* one engine cycle of BlockLength frames at the playhead for the audio
\* track, with the samples of its events: lines 440-451 copy the input
\* buffers into an Audio event, the other events keep what the record
\* obtained from the pool held (the buffers of an Audio event of an earlier
\* cycle, or samples never written)
ClipCycle(in) ==
  /\ ncycles < MaxTlCycles
  /\ HandleRecordingCall(AuTrack, in)
  /\ LET evs == HandleRecordingEvents(tracks, AuTrack, in)
     IN  \E held \in
           {[k \in Frames |-> Captured(c, k, 0)] : c \in 0 .. ncycles - 1}
             \cup {[k \in Frames |-> u] : u \in UninitSamples} :
           ev_data' = ev_data \o
             [i \in 1 .. Len(evs) |->
                [g_start_frames |-> playhead, local_offset |-> 0,
                 nframes |-> BlockLength, midi_event |-> NoMidi,
                 cycle |-> ncycles,
                 lbuf |-> [k \in Frames |->
                             IF evs[i].type = "AUDIO"
                               THEN Captured(ncycles, k, 0) ELSE held[k]],
                 rbuf |-> [k \in Frames |->
                             IF evs[i].type = "AUDIO"
                               THEN Captured(ncycles, k, 1)
                             ELSE IF held[k] \in UninitSamples THEN held[k]
                             ELSE held[k] + 1]]]
  /\ playhead' = IF in.reached_loop_end THEN LoopStartFrames
                                        ELSE playhead + BlockLength
  /\ cycles' = Append(cycles,
                      [start |-> playhead, end |-> playhead + BlockLength,
                       gating |-> GatingHolds(in),
                       tail |-> in.reached_loop_end, midi |-> << >>])
  /\ UNCHANGED <<region_data, tl_step>>

\* one iteration of events_process, with what it does to the clips of the
\* audio track
ClipEvent ==
  /\ EventsProcessEvent
  /\ LET ev == QueueFront(event_queue)
         d  == Head(ev_data)
         r  == tracks[ev.track].recording_region
     IN  /\ \E loop_met \in (IF ev.type = "START_TRACK_RECORDING" /\ r = 0
                               THEN LoopPointMetOutcomes(d) ELSE {FALSE}) :
             \E fill \in UninitSamples :
               region_data' =
                 ClipDispatch(region_data, tracks, ev, d, loop_met, fill)
         /\ tl_step' = [kind |-> "clip", type |-> ev.type, region |-> r,
                        d |-> d]
  /\ ev_data' = Tail(ev_data)
  /\ UNCHANGED <<playhead, cycles>>

\* the automation of the instrument track is or is not to be recorded while
\* the transport rolls and loops; the track itself is not armed
AtCycle ==
  /\ ncycles < MaxSessionCycles
  /\ \E in \in {i \in CycleInputs(TlTrack) :
                   /\ i.transport_recording /\ i.rolling /\ ~ i.punch_mode
                   /\ ~ i.tr_recording /\ i.num_midi = 0} :
       HandleRecordingCall(TlTrack, in)

\* one iteration of events_process, with the region pointers the handler of
\* an automation event dereferences
AtEvent ==
  /\ EventsProcessEvent
  /\ LET ev == QueueFront(event_queue)
         S  == [tracks |-> tracks, mgr |-> mgr, regions |-> regions,
                undo |-> undo]
     IN  IF ev.type \in {"AUTOMATION", "SPLIT_AUTOMATION_RECORDING"}
           THEN \E x \in AtEnvs :
                  \E env \in {e \in DispatchEnvs(S, ev) :
                                /\ e.should = (ev.type # "AUTOMATION"
                                                 /\ x.should)
                                /\ e.changed = (ev.type = "AUTOMATION"
                                                  /\ x.changed)} :
                    LET R == Dispatch(S, ev, env)
                    IN  /\ tracks' = R.tracks
                        /\ mgr' = R.mgr
                        /\ regions' = R.regions
                        /\ undo' = R.undo
                        /\ tl_step' =
                             [kind |-> "automation",
                              no_region |-> (env.found = 0
                                               /\ env.before = 0),
                              changed |-> x.changed,
                              uses |->
                                IF ev.type = "AUTOMATION"
                                  THEN HandleAutomationEventUses(
                                         S, env.found, x)
                                  ELSE HandleSplitAutomationUses(
                                         S, env.before, env.found, x)]
           ELSE tl_step' = [kind |-> "dispatch", open_before |-> 0]
  /\ UNCHANGED <<playhead, ev_data, region_data, cycles>>

(***************************************************************************)
(* Specifications                                                          *)
(***************************************************************************)
\* the timeline detail before anything was recorded
InitTl ==
  /\ playhead = 0
  /\ ev_data = << >>
  /\ region_data = << >>
  /\ cycles = << >>
  /\ tl_step = NoStep

Init == InitPorts /\ InitRec /\ InitBufs /\ InitTl

Next ==
  \/ \E s \in Ports, d \in Ports, l \in {0, 1} :
       Connect(s, d, l) /\ UNCHANGED <<recVars, sumVars, tlVars>>
  \/ \E s \in Ports, d \in Ports :
       Disconnect(s, d) /\ UNCHANGED <<recVars, sumVars, tlVars>>
  \/ \E p \in Ports :
       DisconnectAll(p) /\ UNCHANGED <<recVars, sumVars, tlVars>>
  \/ \E s \in Ports, d \in Ports :
       CanConnect(s, d) /\ UNCHANGED <<recVars, sumVars, tlVars>>

Spec == Init /\ [][Next]_vars

\* a port as it is read from the project file, with at most one source and
\* one destination: their identifiers are there, the pointers are not yet
InitLoaded ==
  /\ ports = [p \in Ports |-> PortNew("AUDIO", 0)]
  /\ alive = Ports
  /\ nops = 0
  /\ InitRec /\ InitBufs /\ InitTl
  /\ \E S, D \in {<< >>} \cup {<<P>> : P \in OwnedPorts} :
       last = [op |-> "loaded",
               saved_srcs  |-> S,
               saved_dests |-> D,
               src_ids  |-> [i \in 1 .. Len(S) |-> IdentifierOf(S[i])],
               dest_ids |-> [i \in 1 .. Len(D) |-> IdentifierOf(D[i])],
               srcs |-> << >>, dests |-> << >>]

\* a saved port is loaded and its connections are resolved
NextLoaded == PortInitLoaded /\ UNCHANGED <<recVars, sumVars, tlVars>>

SpecLoaded == InitLoaded /\ [][NextLoaded]_vars

NextFree ==
  \/ \E s \in Ports, d \in Ports, l \in {0, 1} :
       Connect(s, d, l) /\ UNCHANGED <<recVars, sumVars, tlVars>>
  \/ \E s \in Ports, d \in Ports :
       Disconnect(s, d) /\ UNCHANGED <<recVars, sumVars, tlVars>>
  \/ \E p \in Ports :
       PortFree(p) /\ UNCHANGED <<recVars, sumVars, tlVars>>

SpecFree == Init /\ [][NextFree]_vars

\* audio ports being connected, filled and summed
InitSum == InitAudioPorts /\ InitRec /\ InitBufs /\ InitTl

NextSum ==
  \/ \E s \in Ports, d \in Ports, l \in {0, 1} :
       Connect(s, d, l) /\ UNCHANGED <<recVars, sumVars, tlVars>>
  \/ \E p \in Ports, data \in [Frames -> SampleValues] :
       WriteBuf(p, data) /\ UNCHANGED <<recVars, tlVars>>
  \/ \E p \in Ports, sf \in Frames, n \in 1 .. BlockLength,
        noroll \in BOOLEAN :
       SumSignal(p, sf, n, noroll) /\ UNCHANGED <<recVars, tlVars>>

SpecSum == InitSum /\ [][NextSum]_vars

\* the control input of a plugin and the CV ports that can modulate it; the
\* CV ports hold what their owners wrote in this cycle
CvSamples == {-1, 0, 1}

InitControl ==
  /\ InitPorts /\ InitRec /\ InitTl
  /\ bufs \in {b \in [Ports -> [Frames -> CvSamples]] :
                \A p \in Ports :
                  /\ \A l \in Frames : b[p][l] = b[p][0]
                  /\ TypeOfPort(p) # "CV" => b[p][0] = 0}
  /\ sum_call = NoSum

\* the ports of the modulation graph: the control input and the CV ports
ControlGraphPorts == {p \in Ports : TypeOfPort(p) \in {"CV", "CONTROL"}}

NextControl ==
  \/ \E s \in ControlGraphPorts, d \in ControlGraphPorts :
       Connect(s, d, 0) /\ UNCHANGED <<recVars, sumVars, tlVars>>
  \/ \E s \in ControlGraphPorts, d \in ControlGraphPorts :
       Disconnect(s, d) /\ UNCHANGED <<recVars, sumVars, tlVars>>
  \/ \E p \in ControlGraphPorts, noroll \in BOOLEAN :
       /\ TypeOfPort(p) = "CONTROL"
       /\ SumSignal(p, 0, BlockLength, noroll)
       /\ UNCHANGED <<recVars, tlVars>>

SpecControl == InitControl /\ [][NextControl]_vars

NextRec ==
  \/ \E t \in Tracks : \E in \in CycleInputs(t) :
       HandleRecording(t, in) /\ UNCHANGED <<portVars, sumVars, tlVars>>
  \/ EventsProcessStart /\ UNCHANGED <<portVars, sumVars, tlVars>>
  \/ EventsProcessEvent /\ UNCHANGED <<portVars, sumVars, tlVars>>
  \/ EventsProcessReturn /\ UNCHANGED <<portVars, sumVars, tlVars>>

SpecRec == Init /\ [][NextRec]_vars

\* the instrument track is recorded from where the playhead was placed
InitTimeline ==
  /\ InitPorts /\ InitRec /\ InitBufs
  /\ playhead \in PlayheadStarts
  /\ ev_data = << >>
  /\ region_data = << >>
  /\ cycles = << >>
  /\ tl_step = NoStep

NextTimeline ==
  \/ \E in \in TlInputs :
       TimelineCycle(in) /\ UNCHANGED <<portVars, sumVars>>
  \/ EventsProcessStart /\ UNCHANGED <<portVars, sumVars, tlVars>>
  \/ TimelineEvent /\ UNCHANGED <<portVars, sumVars>>
  \/ EventsProcessReturn /\ UNCHANGED <<portVars, sumVars, tlVars>>

SpecTimeline == InitTimeline /\ [][NextTimeline]_vars

\* the audio track is recorded from where the playhead was placed
NextAudio ==
  \/ \E armed \in BOOLEAN :
       AudioCycle(AuInput(armed)) /\ UNCHANGED <<portVars, sumVars>>
  \/ EventsProcessStart /\ UNCHANGED <<portVars, sumVars, tlVars>>
  \/ AudioEvent /\ UNCHANGED <<portVars, sumVars>>
  \/ EventsProcessReturn /\ UNCHANGED <<portVars, sumVars, tlVars>>

SpecAudio == InitTimeline /\ [][NextAudio]_vars

\* the audio track is recorded from where the playhead was placed, and the
\* samples of its clips are followed
NextClip ==
  \/ \E armed \in BOOLEAN :
       ClipCycle(AuInput(armed)) /\ UNCHANGED <<portVars, sumVars>>
  \/ EventsProcessStart /\ UNCHANGED <<portVars, sumVars, tlVars>>
  \/ ClipEvent /\ UNCHANGED <<portVars, sumVars>>
  \/ EventsProcessReturn /\ UNCHANGED <<portVars, sumVars, tlVars>>

SpecClip == InitTimeline /\ [][NextClip]_vars

\* tracks are recorded with no automation armed while the timer source
\* keeps firing: an invocation of events_process that has started takes its
\* next step
NextDrain ==
  \/ \E t \in Tracks :
       \E in \in {i \in CycleInputs(t) : NumAts(t) > 0 => ~ i.at_should} :
         HandleRecording(t, in) /\ UNCHANGED <<portVars, sumVars, tlVars>>
  \/ EventsProcessStart /\ UNCHANGED <<portVars, sumVars, tlVars>>
  \/ EventsProcessEvent /\ UNCHANGED <<portVars, sumVars, tlVars>>
  \/ EventsProcessReturn /\ UNCHANGED <<portVars, sumVars, tlVars>>

SpecDrain ==
  /\ Init /\ [][NextDrain]_vars
  /\ WF_vars(EventsProcessEvent /\ UNCHANGED <<portVars, sumVars, tlVars>>)
  /\ WF_vars(EventsProcessReturn /\ UNCHANGED <<portVars, sumVars, tlVars>>)

\* tracks are recorded with no automation armed, the timer source fires,
\* and the manager is torn down at some point
NextShutdown ==
  \/ \E t \in Tracks :
       \E in \in {i \in CycleInputs(t) : NumAts(t) > 0 => ~ i.at_should} :
         HandleRecordingDuringFree(t, in)
           /\ UNCHANGED <<portVars, sumVars, tlVars>>
  \/ EventsProcessStart /\ UNCHANGED <<portVars, sumVars, tlVars>>
  \/ EventsProcessEvent /\ UNCHANGED <<portVars, sumVars, tlVars>>
  \/ EventsProcessReturn /\ UNCHANGED <<portVars, sumVars, tlVars>>
  \/ RecordingManagerFreeDrain /\ UNCHANGED <<portVars, sumVars, tlVars>>
  \/ RecordingManagerFreeRelease /\ UNCHANGED <<portVars, sumVars, tlVars>>

SpecShutdown == Init /\ [][NextShutdown]_vars

\* the audio track has been recorded for PrefillCycles cycles in which the
\* timer source did not fire: two records are left in the pool
PrefillCycles == (PoolSize - 2) \div 2

PrefillInput(armed) ==
  [transport_recording |-> TRUE, tr_recording |-> armed, rolling |-> TRUE,
   punch_mode |-> FALSE, punch_inside |-> TRUE, reached_loop_end |-> FALSE,
   at_should |-> TRUE, num_midi |-> 0]

\* the queue after n calls of handle_recording with the armed input: no
\* event is processed in between, so every call finds no region in progress
\* and emits the same events
PrefilledQueue(n) ==
  LET evs == HandleRecordingEvents(
               [t \in Tracks |->
                  [recording_region |-> 0,
                   at_recording_started |-> FALSE,
                   at_recording_region |-> 0]],
               AuTrack, PrefillInput(TRUE))
      k(j) == ((j - 1) % Len(evs)) + 1
  IN  [j \in 1 .. n * Len(evs) |->
         [type |-> evs[k(j)].type, track |-> evs[k(j)].track,
          has_midi_event |-> evs[k(j)].has_midi_event,
          note |-> evs[k(j)].note,
          id |-> j, cyc |-> ((j - 1) \div Len(evs)) + 1]]

InitExhaust ==
  /\ InitPorts /\ InitBufs /\ InitTl
  /\ tracks = [t \in Tracks |->
                 [recording_region |-> 0,
                  at_recording_started |-> FALSE,
                  at_recording_region |-> 0]]
  /\ mgr = [is_recording |-> FALSE,
            recorded_ids |-> << >>,
            selections_before_start_track |-> FALSE,
            selections_before_start_automation |-> FALSE,
            source_id |-> TimeoutSourceId,
            freed |-> FALSE]
  /\ regions = << >>
  /\ undo = << >>
  /\ event_queue = PrefilledQueue(PrefillCycles)
  /\ pool_avail = ObjectPoolGet(PoolSize, Len(event_queue))
  /\ consumer_pc = "idle"
  /\ ncycles = PrefillCycles
  /\ nev = Len(event_queue)
  /\ step = [kind |-> "handle", track |-> AuTrack,
             gating |-> TRUE, reached_loop_end |-> FALSE, num_midi |-> 0,
             had_region |-> FALSE, should |-> FALSE,
             emitted |-> SubSeq(event_queue, Len(event_queue) - 1,
                                Len(event_queue))]
  /\ dispatched = << >>

\* the audio thread runs one more cycle of the audio track
HandleRecordingWithPool(in) ==
  /\ consumer_pc # "aborted"
  /\ ncycles < PrefillCycles + MaxCycles
  /\ \/ /\ Len(HandleRecordingEvents(tracks, AuTrack, in)) <= pool_avail
        /\ HandleRecordingCall(AuTrack, in)
     \/ HandleRecordingExhausted(AuTrack, in)

NextExhaust ==
  \/ \E armed \in BOOLEAN :
       HandleRecordingWithPool(PrefillInput(armed))
         /\ UNCHANGED <<portVars, sumVars, tlVars>>
  \/ EventsProcessStart /\ UNCHANGED <<portVars, sumVars, tlVars>>
  \/ EventsProcessEvent /\ UNCHANGED <<portVars, sumVars, tlVars>>
  \/ EventsProcessReturn /\ UNCHANGED <<portVars, sumVars, tlVars>>

SpecExhaust == InitExhaust /\ [][NextExhaust]_vars

\* tracks are recorded outside punch mode with no automation to be recorded
\* and no MIDI message coming in; after MaxCycles cycles at the latest a
\* gating condition is false for good, while the
\* audio thread keeps calling handle_recording for every track and the
\* timer source keeps firing
StopInputs(t) ==
  {in \in CycleInputs(t) :
     /\ ~ AtShouldRecord(t, in)
     /\ ~ in.punch_mode /\ in.num_midi = 0
     /\ ~ GatingHolds(in) => ~ in.reached_loop_end}

\* recording_manager_handle_recording in a cycle in which a gating condition
\* is false, called cycle after cycle: the calls are counted up to MaxCycles
StoppedCycle(t) ==
  \E in \in StopInputs(t) :
  /\ ~ GatingHolds(in)
  /\ LET evs == HandleRecordingEvents(tracks, t, in)
         stamped == [i \in 1 .. Len(evs) |->
                       [type |-> evs[i].type, track |-> evs[i].track,
                        has_midi_event |-> evs[i].has_midi_event,
                        note |-> evs[i].note,
                        id |-> nev + i, cyc |-> ncycles + 1]]
     IN  /\ Len(event_queue) + Len(evs) <= MaxQueued
         /\ event_queue' = QueuePushBack(event_queue, stamped)
         /\ pool_avail' = ObjectPoolGet(pool_avail, Len(evs))
         /\ nev' = nev + Len(evs)
         /\ step' = [kind |-> "handle", track |-> t,
                     gating |-> GatingHolds(in),
                     reached_loop_end |-> in.reached_loop_end,
                     num_midi |-> in.num_midi,
                     had_region |-> tracks[t].recording_region # 0,
                     should |-> AtShouldRecord(t, in),
                     emitted |-> stamped]
  /\ ncycles' = IF ncycles < MaxCycles THEN ncycles + 1 ELSE ncycles
  /\ UNCHANGED <<tracks, mgr, regions, undo, consumer_pc, dispatched>>
  /\ UNCHANGED <<portVars, sumVars, tlVars>>

NextStop ==
  \/ \E t \in Tracks : \E in \in StopInputs(t) :
       /\ GatingHolds(in)
       /\ HandleRecording(t, in)
       /\ UNCHANGED <<portVars, sumVars, tlVars>>
  \/ \E t \in Tracks : StoppedCycle(t)
  \/ EventsProcessStart /\ UNCHANGED <<portVars, sumVars, tlVars>>
  \/ EventsProcessEvent /\ UNCHANGED <<portVars, sumVars, tlVars>>
  \/ EventsProcessReturn /\ UNCHANGED <<portVars, sumVars, tlVars>>

SpecStop ==
  /\ Init /\ [][NextStop]_vars
  /\ \A t \in Tracks : WF_vars(StoppedCycle(t))
  /\ WF_vars(EventsProcessStart /\ UNCHANGED <<portVars, sumVars, tlVars>>)
  /\ WF_vars(EventsProcessEvent /\ UNCHANGED <<portVars, sumVars, tlVars>>)
  /\ WF_vars(EventsProcessReturn /\ UNCHANGED <<portVars, sumVars, tlVars>>)

\* two tracks are armed and disarmed by the user while the transport rolls
\* and loops outside punch mode; no automation is to be recorded
PairCycle(t) ==
  /\ ncycles < MaxPairCycles
  /\ \E armed \in BOOLEAN, tail \in BOOLEAN :
       HandleRecordingCall(
         t, [transport_recording |-> TRUE, tr_recording |-> armed,
             rolling |-> TRUE, punch_mode |-> FALSE, punch_inside |-> TRUE,
             reached_loop_end |-> tail, at_should |-> FALSE,
             num_midi |-> 0])

NextPair ==
  \/ \E t \in Tracks :
       PairCycle(t) /\ UNCHANGED <<portVars, sumVars, tlVars>>
  \/ EventsProcessStart /\ UNCHANGED <<portVars, sumVars, tlVars>>
  \/ EventsProcessEvent /\ UNCHANGED <<portVars, sumVars, tlVars>>
  \/ EventsProcessReturn /\ UNCHANGED <<portVars, sumVars, tlVars>>

SpecPair == Init /\ [][NextPair]_vars

\* the automation of the instrument track is recorded
NextAt ==
  \/ AtCycle /\ UNCHANGED <<portVars, sumVars, tlVars>>
  \/ EventsProcessStart /\ UNCHANGED <<portVars, sumVars, tlVars>>
  \/ AtEvent /\ UNCHANGED <<portVars, sumVars>>
  \/ EventsProcessReturn /\ UNCHANGED <<portVars, sumVars, tlVars>>

SpecAt == Init /\ [][NextAt]_vars

\* one instrument track with an armed automation track while the transport
\* rolls outside punch mode: the user arms and disarms the track, and the
\* automation track is or is not to be recorded
SessionInputs ==
  {in \in CycleInputs(TlTrack) :
     /\ in.transport_recording /\ in.rolling /\ ~ in.punch_mode
     /\ ~ in.reached_loop_end /\ in.num_midi = 0}

SessionCycle(in) ==
  /\ ncycles < MaxSessionCycles
  /\ HandleRecordingCall(TlTrack, in)

NextSession ==
  \/ \E in \in SessionInputs :
       SessionCycle(in) /\ UNCHANGED <<portVars, sumVars, tlVars>>
  \/ EventsProcessStart /\ UNCHANGED <<portVars, sumVars, tlVars>>
  \/ EventsProcessEvent /\ UNCHANGED <<portVars, sumVars, tlVars>>
  \/ EventsProcessReturn /\ UNCHANGED <<portVars, sumVars, tlVars>>

SpecSession == Init /\ [][NextSession]_vars

(***************************************************************************)
(* Properties of the routing graph                                         *)
(***************************************************************************)
\* the source and destination lists of every port
EdgeLists(P) == [p \in Ports |-> <<P[p].srcs, P[p].dests>>]

\* the kinds the specification lets connect
KindsCompatible(st, dt) == st = dt \/ (st = "CV" /\ dt = "CONTROL")

\* no edge touches the port
Isolated(P, port) ==
  /\ P[port].srcs = << >>
  /\ P[port].dests = << >>
  /\ \A q \in Ports : ~ ArrayContains(P[q].srcs, port)
                      /\ ~ ArrayContains(P[q].dests, port)

\* C1: for any sequence of connect operations the routing graph never
\* contains a directed cycle (a connect that would close one is rejected).
C1_Acyclic == IsAcyclic(Edges(ports))

\* C2: connect(src, dest) succeeds iff the kinds are equal or CV -> Control;
\* for every other combination it fails and the source / destination lists
\* are the same as before the call.
C2_TypeCompat ==
  [][(nops' # nops /\ last'.op = "connect") =>
       /\ (last'.ret = 0) <=>
            KindsCompatible(ports[last'.src].type, ports[last'.dest].type)
       /\ (last'.ret # 0) => EdgeLists(ports') = EdgeLists(ports)]_vars

\* a rejected connect on a source port that has other destinations
C2_Witness ==
  /\ last.op = "connect" /\ last.ret = -1
  /\ ports[last.src].dests # << >>

\* C3: source and destination lists are mutually consistent: A is in B's
\* source list iff B is in A's destination list.
C3_Consistent ==
  \A a \in Ports, b \in Ports :
    ArrayContains(ports[b].srcs, a) <=> ArrayContains(ports[a].dests, b)

\* a disconnect_all of a connected port has run and edges remain in the graph
C3_Witness ==
  /\ last.op = "disconnect_all" /\ last.had
  /\ \E p \in Ports : ports[p].srcs # << >>

\* C4: after a successful connect(A,B) the edge is there on both sides and
\* connected(A,B) is true; after disconnect(A,B) it is gone on both sides
\* and connected(A,B) is false, whatever other edges A and B have.
C4_ConnectDisconnect ==
  /\ (last.op = "connect" /\ last.ret = 0) =>
       /\ PortsConnected(ports, last.src, last.dest) = 1
       /\ last.dest \in Range(ports[last.src].dests)
       /\ last.src \in Range(ports[last.dest].srcs)
  /\ (last.op = "disconnect") =>
       /\ PortsConnected(ports, last.src, last.dest) = 0
       /\ last.dest \notin Range(ports[last.src].dests)
       /\ last.src \notin Range(ports[last.dest].srcs)

\* an existing edge was disconnected from a port that keeps another edge
C4_Witness ==
  /\ last.op = "disconnect" /\ last.had
  /\ ports[last.src].dests # << >>

\* C5: after disconnect_all(port) no edge touches the port.
C5_DisconnectAllIsolates ==
  (last.op = "disconnect_all") => Isolated(ports, last.src)

\* C6: a port that still has a connection is not destroyed, so that no live
\* port lists a destroyed port.
C6_NoDanglingPort ==
  /\ (last.op = "free" /\ last.had) => last.src \in alive
  /\ \A p \in alive :
       Range(ports[p].srcs) \cup Range(ports[p].dests) \subseteq alive

\* C7: can_be_connected(src, dest) is true iff connect(src, dest) issued in
\* the same graph state would succeed.
C7_CanConnectAgrees ==
  \A s \in Ports, d \in Ports :
    (PortsCanBeConnected(ports, s, d) = 1)
      <=> (PortConnect(ports, s, d, 0).ret = 0)

(***************************************************************************)
(* Properties of the recording pipeline                                    *)
(***************************************************************************)
\* number of events of the given type for the track in a sequence of events
CountEvents(evs, t, type) ==
  Cardinality({i \in 1 .. Len(evs) :
                 evs[i].track = t /\ evs[i].type = type})

\* the step just taken dispatched an event of the given type for the track
Dispatched(s, t, type) ==
  s.kind = "dispatch" /\ s.ev.track = t /\ s.ev.type = type

\* C8: the consumer dispatches the events in exactly the order they were
\* enqueued (identifiers count the pushes), and a Start / Split / Stop event
\* of a cycle is ahead of the data events of that cycle for the track.
C8_Fifo ==
  /\ \A i \in 1 .. Len(event_queue) :
       event_queue[i].id = nev - Len(event_queue) + i
  /\ step.kind = "dispatch" => step.ev.id = nev - Len(event_queue)
  /\ \A i \in 1 .. Len(event_queue), j \in 1 .. Len(event_queue) :
       (/\ i < j
        /\ event_queue[i].track = event_queue[j].track
        /\ event_queue[i].cyc = event_queue[j].cyc
        /\ event_queue[j].type \in TrackCtlTypes)
         => event_queue[i].type \notin DataTypes

\* a data event that was pushed behind others is dispatched while later
\* events are still queued
C8_Witness ==
  /\ step.kind = "dispatch"
  /\ step.ev.type \in DataTypes
  /\ step.ev.id > 1
  /\ event_queue # << >>

\* C9: a track's recording_region goes from none to some only while a
\* StartTrackRecording event is processed, from some to none only while a
\* StopTrackRecording event is processed, and a SplitTrackRecording event
\* replaces it by a different region without leaving the track without one.
C9_RegionLifecycle ==
  [][\A t \in Tracks :
       LET b == tracks[t].recording_region
           a == tracks'[t].recording_region
       IN  /\ (b = 0 /\ a # 0) =>
                Dispatched(step', t, "START_TRACK_RECORDING")
           /\ (b # 0 /\ a = 0) =>
                Dispatched(step', t, "STOP_TRACK_RECORDING")
           /\ (/\ event_queue' # event_queue
               /\ Dispatched(step', t, "SPLIT_TRACK_RECORDING")
               /\ b # 0) => (a # 0 /\ a # b)]_vars

\* a Split was processed for a track that was recording
C9_Witness ==
  /\ step.kind = "dispatch"
  /\ step.ev.type = "SPLIT_TRACK_RECORDING"
  /\ step.region_before # 0
  /\ tracks[step.ev.track].recording_region # step.region_before

\* C10: in a cycle where a gating condition is false and the track has an
\* in-progress region, handle_recording emits exactly one StopTrackRecording
\* for the track; when the track has no in-progress region it emits none.
C10_StopEmission ==
  step.kind = "handle" =>
    LET n == CountEvents(step.emitted, step.track, "STOP_TRACK_RECORDING")
    IN  /\ (~ step.gating /\ step.had_region) => n = 1
        /\ ~ step.had_region => n = 0

\* a cycle with gating false on a track that is recording
C10_Witness ==
  step.kind = "handle" /\ ~ step.gating /\ step.had_region

\* the cycle just handled is a pending stop for its track: a gating
\* condition is false and the track has an in-progress region
PendingStop(s) == s.kind = "handle" /\ ~ s.gating /\ s.had_region

\* the data events a cycle that records must push for its track
DataAsSpecified(s) ==
  LET midi  == {i \in 1 .. Len(s.emitted) : s.emitted[i].type = "MIDI"}
      audio == {i \in 1 .. Len(s.emitted) : s.emitted[i].type = "AUDIO"}
  IN  /\ \A i \in midi \cup audio : s.emitted[i].track = s.track
      /\ TrackType(s.track) = "MIDI" =>
            /\ audio = {}
            /\ Cardinality(midi) = IF s.num_midi = 0 THEN 1 ELSE s.num_midi
            /\ \A i \in midi :
                 s.emitted[i].has_midi_event
                   = IF s.num_midi = 0 THEN 0 ELSE 1
            /\ s.num_midi > 0 =>
                 {s.emitted[i].note : i \in midi} = 1 .. s.num_midi
      /\ TrackType(s.track) = "AUDIO" =>
            /\ midi = {}
            /\ Cardinality(audio) = 1

\* C11: in a cycle where all gating conditions hold, handle_recording emits
\* SplitTrackRecording iff the cycle is a loop-end tail and a region is in
\* progress, StartTrackRecording iff no region is in progress, never both,
\* and neither when a region is in progress outside a loop-end tail.
C11_SplitStartEmission ==
  (step.kind = "handle" /\ step.gating) =>
    LET split == CountEvents(step.emitted, step.track,
                             "SPLIT_TRACK_RECORDING")
        start == CountEvents(step.emitted, step.track,
                             "START_TRACK_RECORDING")
    IN  /\ split = IF step.reached_loop_end /\ step.had_region
                     THEN 1 ELSE 0
        /\ start = IF ~ step.had_region THEN 1 ELSE 0
        /\ split + start <= 1
        /\ (step.had_region /\ ~ step.reached_loop_end) =>
              split + start = 0

\* a loop-end tail with all gating conditions true on a track that has no
\* region in progress: Start, not Split
C11_Witness ==
  /\ step.kind = "handle" /\ step.gating
  /\ step.reached_loop_end /\ ~ step.had_region
  /\ CountEvents(step.emitted, step.track, "START_TRACK_RECORDING") = 1

\* C12: in a cycle that is a pending stop for a track, handle_recording
\* emits no Midi and no Audio event for that track.
C12_NoDataOnPendingStop ==
  PendingStop(step) =>
    \A i \in 1 .. Len(step.emitted) : step.emitted[i].type \notin DataTypes

\* a pending stop of the instrument track in a cycle that has MIDI messages
C12_Witness ==
  /\ PendingStop(step)
  /\ TrackType(step.track) = "MIDI"
  /\ step.num_midi > 0

RECURSIVE SourceSum(_, _, _, _)
SourceSum(B, srcs, k, l) ==
  IF k > Len(srcs) THEN 0 ELSE B[srcs[k]][l] + SourceSum(B, srcs, k + 1, l)

\* C18: when an audio port is processed while rolling over the range
\* [start_frame, start_frame + nframes), sample i of the port is increased
\* by the sum of sample i of its source ports for every i in the range,
\* also when start_frame > 0, and the samples outside the range keep
\* their value (the port is not one of its own sources).
C18_SumInRange ==
  [][(/\ nops' # nops
      /\ last'.op = "sum"
      /\ ~ sum_call'.noroll
      /\ ports[sum_call'.port].type = "AUDIO"
      /\ ~ ArrayContains(ports[sum_call'.port].srcs, sum_call'.port))
       => LET c == sum_call'
              p == c.port
          IN  \A l \in Frames :
                bufs'[p][l] =
                  IF c.start_frame <= l /\ l < c.start_frame + c.nframes
                    THEN bufs[p][l] + SourceSum(bufs, ports[p].srcs, 1, l)
                    ELSE bufs[p][l]]_vars

(***************************************************************************)
(* Properties of the consumer loop and the event pool                      *)
(***************************************************************************)
\* C19: every invocation of events_process terminates, and when it returns
\* the queue is empty and every event pushed so far has been dispatched
\* exactly once.
C19_ProcessEventsDrains ==
  /\ (consumer_pc = "running") ~> (consumer_pc = "idle")
  /\ [][(consumer_pc = "running" /\ consumer_pc' = "idle") =>
          /\ event_queue' = << >>
          /\ dispatched' = [i \in 1 .. nev |-> i]]_vars

\* an invocation that found several events queued has returned
C19_Witness ==
  /\ consumer_pc = "idle"
  /\ Len(dispatched) >= 2
  /\ event_queue = << >>

\* C20: every record the producer took from the pool goes back to it
\* exactly once when the consumer has dequeued it, whatever the type of
\* the event: free records plus queued records equal the pool size.
C20_PoolAccounting ==
  /\ pool_avail + Len(event_queue) = PoolSize
  /\ pool_avail <= PoolSize

\* records of every kind of dispatch went back while others are queued
C20_Witness ==
  /\ step.kind = "dispatch"
  /\ step.ev.type \in {"STOP_TRACK_RECORDING", "SPLIT_TRACK_RECORDING"}
  /\ event_queue # << >>
  /\ pool_avail < PoolSize

(***************************************************************************)
(* Properties of the recorded regions and notes                            *)
(***************************************************************************)
\* the cycles run so far are armed cycles of one session that passes the
\* loop end once: one loop-end tail, with cycles before and after it
CrossesLoopOnce ==
  /\ \A i \in 1 .. Len(cycles) : cycles[i].gating
  /\ \E k \in 2 .. Len(cycles) - 1 :
       \A i \in 1 .. Len(cycles) : cycles[i].tail <=> i = k

\* C15: a recording session that crosses the loop boundary once produces
\* exactly two regions for the track: the first ends exactly at the loop
\* end, the second starts exactly at the loop start in the adjacent lane and
\* is the in-progress region, and together they cover the frames recorded
\* (session start to loop end, loop start to the end of the last cycle)
\* without gap or overlap.
C15_TwoRegionsAtLoop ==
  (CrossesLoopOnce /\ event_queue = << >>) =>
    /\ Len(region_data) = 2
    /\ region_data[1].pos = cycles[1].start
    /\ region_data[1].end_pos = LoopEndFrames
    /\ region_data[2].pos = LoopStartFrames
    /\ region_data[2].end_pos = cycles[Len(cycles)].end
    /\ region_data[2].lane_pos = region_data[1].lane_pos + 1
    /\ tracks[TlTrack].recording_region = 2

\* C16: after a SplitTrackRecording event is processed for a MIDI track,
\* the region that was in progress has no unended note left: every note
\* that was open is closed at the loop end in that region (the other notes
\* keep their ends), and the new region holds no note.
C16_SplitClosesNotes ==
  [][(/\ event_queue' # event_queue
      /\ ev_data' # ev_data
      /\ Dispatched(step', TlTrack, "SPLIT_TRACK_RECORDING")
      /\ tracks[TlTrack].recording_region # 0)
       => LET r    == tracks[TlTrack].recording_region
              n    == tracks'[TlTrack].recording_region
              old  == region_data[r]
              new  == region_data'[r]
              open == {old.unended[k] : k \in 1 .. Len(old.unended)}
          IN  /\ new.unended = << >>
              /\ Len(new.notes) = Len(old.notes)
              /\ \A i \in 1 .. Len(old.notes) :
                   new.notes[i] =
                     IF i \in open
                       THEN [old.notes[i] EXCEPT
                               !.end_pos = LoopEndFrames - old.pos]
                       ELSE old.notes[i]
              /\ n # r
              /\ region_data'[n].notes = << >>
              /\ region_data'[n].unended = << >>]_vars

\* a Split was processed while a note was open in the recording region
C16_Witness ==
  /\ step.kind = "dispatch"
  /\ step.ev.type = "SPLIT_TRACK_RECORDING"
  /\ step.region_before # 0
  /\ tl_step.kind = "dispatch"
  /\ tl_step.open_before > 0
  /\ region_data[step.region_before].notes # << >>

\* the MIDI messages of the first n cycles, each with the cycle it came in
RECURSIVE SessionMessages(_)
SessionMessages(n) ==
  IF n = 0 THEN << >>
  ELSE SessionMessages(n - 1) \o
         [i \in 1 .. Len(cycles[n].midi) |->
            [type |-> cycles[n].midi[i].type,
             pitch |-> cycles[n].midi[i].pitch, cyc |-> n]]

\* number of messages of the type and pitch strictly between a and b
CountBetween(M, type, pitch, a, b) ==
  Cardinality({i \in a + 1 .. b - 1 :
                 M[i].type = type /\ M[i].pitch = pitch})

\* the note-off b closes the note-on a: same pitch, and the note-ons and
\* note-offs of that pitch between them pair up among themselves
Closes(M, a, b) ==
  /\ a < b
  /\ M[a].type = "NOTE_ON" /\ M[b].type = "NOTE_OFF"
  /\ M[a].pitch = M[b].pitch
  /\ CountBetween(M, "NOTE_ON", M[a].pitch, a, b)
       = CountBetween(M, "NOTE_OFF", M[a].pitch, a, b)
  /\ \A c \in a + 1 .. b - 1 :
       (M[c].type = "NOTE_OFF" /\ M[c].pitch = M[a].pitch) =>
         CountBetween(M, "NOTE_ON", M[a].pitch, a, c)
           > CountBetween(M, "NOTE_OFF", M[a].pitch, a, c)

\* the messages are note-on / note-off pairs
WellPaired(M) ==
  /\ \A a \in 1 .. Len(M) :
       M[a].type = "NOTE_ON" => \E b \in 1 .. Len(M) : Closes(M, a, b)
  /\ \A b \in 1 .. Len(M) :
       M[b].type = "NOTE_OFF" => \E a \in 1 .. Len(M) : Closes(M, a, b)

\* the notes the pairs stand for, in the order of their note-ons, with the
\* positions relative to the frame `base'
ExpectedNotes(M, base) ==
  LET ons == {a \in 1 .. Len(M) : M[a].type = "NOTE_ON"}
      nth(k) == CHOOSE a \in ons :
                  Cardinality({x \in ons : x <= a}) = k
      off(a) == CHOOSE b \in 1 .. Len(M) : Closes(M, a, b)
  IN  [k \in 1 .. Cardinality(ons) |->
         [pitch |-> M[nth(k)].pitch,
          pos |-> cycles[M[nth(k)].cyc].start - base,
          end_pos |-> cycles[M[off(nth(k))].cyc].end - base]]

\* the cycles run so far are one session of n armed cycles that does not
\* reach the loop end, followed by cycles with the track disarmed
OneSession(n) ==
  /\ n < Len(cycles)
  /\ \A i \in 1 .. Len(cycles) : cycles[i].gating <=> i <= n
  /\ \A i \in 1 .. n : ~ cycles[i].tail
  /\ WellPaired(SessionMessages(n))

\* the Stop of the session has been processed and nothing is queued
SessionStopped ==
  /\ event_queue = << >>
  /\ regions # << >>
  /\ tracks[TlTrack].recording_region = 0

\* C17: for a session of N cycles without loop crossing in which
\* note-on / note-off pairs are recorded, after StopTrackRecording is
\* processed exactly one region exists for the session, it spans from the
\* start of the first cycle to the end of the last one, and it contains
\* exactly one note per pair, each closed, with the pitch of its note-on,
\* starting at the region-relative start of the cycle of its note-on and
\* ending at the region-relative end of the cycle of its note-off.
C17_SessionRegion ==
  \A n \in 1 .. MaxTlCycles + 1 :
    (OneSession(n) /\ SessionStopped) =>
      /\ Len(region_data) = 1
      /\ region_data[1].pos = cycles[1].start
      /\ region_data[1].end_pos = cycles[n].end
      /\ region_data[1].unended = << >>
      /\ region_data[1].notes
           = ExpectedNotes(SessionMessages(n), cycles[1].start)

\* a stopped session of N cycles that recorded N pairs
C17_Witness ==
  \E n \in 1 .. MaxTlCycles :
    /\ OneSession(n) /\ SessionStopped
    /\ Len(region_data) = 1
    /\ Len(region_data[1].notes) = n

(***************************************************************************)
(* Properties of the record actions                                        *)
(***************************************************************************)
\* the record actions of track recording sessions among the actions performed
TrackActions(u) == SelectSeq(u, LAMBDA a : ~ a.is_automation)

\* C14: for each track recording session exactly one record action is built
\* and committed, and it is built from the pre-recording selection snapshot:
\* the step that ends a session (StopTrackRecording processed while the
\* manager is recording) commits one record action whose snapshot is the one
\* taken when recording started, and no other step commits one, so further
\* StopTrackRecording events of the same session commit nothing.
C14_OneRecordAction ==
  [][LET before == TrackActions(undo)
         after  == TrackActions(undo')
     IN  IF mgr.is_recording /\ ~ mgr'.is_recording
           THEN /\ Len(after) = Len(before) + 1
                /\ SubSeq(after, 1, Len(before)) = before
                /\ after[Len(after)].before_set
           ELSE after = before]_vars

(***************************************************************************)
(* Properties of the hand-off between the two threads                      *)
(***************************************************************************)
\* what processEvents owns: the in-progress regions and automation flags of
\* the tracks, the manager's flag, identifiers and snapshots, the regions
\* and their contents, the actions performed
TimelineState == <<tracks, mgr, regions, undo, region_data>>

\* C23: handleRecording only enqueues events: a cycle of the audio thread
\* leaves unchanged every track's in-progress region, every automation
\* track's recording-started flag and recording region, the manager's
\* is-recording flag and recorded identifiers, and all region data; those
\* change only in a step of processEvents that handles a dequeued event.
C23_ProducerOnlyEnqueues ==
  [][/\ ncycles' # ncycles => TimelineState' = TimelineState
     /\ TimelineState' # TimelineState
          => /\ consumer_pc = "running"
             /\ event_queue # << >>
             /\ event_queue' = QueuePopFront(event_queue)]_vars

\* a cycle has enqueued events while a region and an automation recording
\* were in progress
C23_Witness ==
  /\ step.kind = "handle"
  /\ step.emitted # << >>
  /\ step.had_region
  /\ tracks[step.track].at_recording_started
  /\ mgr.is_recording

(***************************************************************************)
(* Properties of the automation events of a cycle                          *)
(***************************************************************************)
\* the events the cycle emitted for the automation track, by type
AtEmitted(s, type) == CountEvents(s.emitted, s.track, type)

\* Start / Stop / Split follow the recording-started flag of the automation
\* track and whether it is to be recorded, and nothing else
AtControlAsSpecified(s) ==
  LET started == tracks[s.track].at_recording_started
  IN  /\ AtEmitted(s, "STOP_AUTOMATION_RECORDING")
           = IF ~ s.should /\ started THEN 1 ELSE 0
      /\ AtEmitted(s, "SPLIT_AUTOMATION_RECORDING")
           = IF s.should /\ started /\ s.reached_loop_end THEN 1 ELSE 0
      /\ AtEmitted(s, "START_AUTOMATION_RECORDING")
           = IF s.should /\ ~ started THEN 1 ELSE 0

\* C29 (as stated): in every cycle in which the automation parameter should
\* be recording, handleRecording emits one AutomationSample event for it,
\* the loop-end tail cycle of the Split included, and Start / Stop / Split
\* follow the parameter's own recording-started flag independently of the
\* arm and global recording flags.
C29_Original ==
  (step.kind = "handle" /\ NumAts(step.track) > 0) =>
    /\ AtControlAsSpecified(step)
    /\ AtEmitted(step, "AUTOMATION") = IF step.should THEN 1 ELSE 0

\* C29 (amended): one AutomationSample event is emitted in every cycle in
\* which the parameter should be recording, except the cycle in which a
\* SplitAutomationRecording is emitted, which carries no AutomationSample;
\* Start / Stop / Split follow the parameter's own recording-started flag
\* independently of the arm and global recording flags.
C29_AutomationPerCycle ==
  (step.kind = "handle" /\ NumAts(step.track) > 0) =>
    /\ AtControlAsSpecified(step)
    /\ AtEmitted(step, "AUTOMATION")
         = IF step.should
                /\ AtEmitted(step, "SPLIT_AUTOMATION_RECORDING") = 0
             THEN 1 ELSE 0

\* automation recording was started in a cycle whose gating conditions did
\* not hold, and is split in the cycle that reaches the loop end
C29_Witness ==
  /\ step.kind = "handle"
  /\ ~ step.gating
  /\ step.should
  /\ AtEmitted(step, "SPLIT_AUTOMATION_RECORDING") = 1
  /\ ~ mgr.is_recording

(***************************************************************************)
(* Properties of the edges of the routing graph                            *)
(***************************************************************************)
\* the positions of the element in the array
IndicesOf(arr, el) == {i \in 1 .. Len(arr) : arr[i] = el}

\* the pair is connected by one edge, listed once on each side, with the
\* given attributes
OneEdgeWith(P, src, dest, multiplier, locked, enabled) ==
  /\ Cardinality(IndicesOf(P[src].dests, dest)) = 1
  /\ Cardinality(IndicesOf(P[dest].srcs, src)) = 1
  /\ \A i \in IndicesOf(P[src].dests, dest) :
       /\ P[src].multipliers[i] = multiplier
       /\ P[src].dest_locked[i] = locked
       /\ P[src].dest_enabled[i] = enabled

\* C24: after any sequence of connect and disconnect calls there is at most
\* one edge per ordered pair (src, dest); a connect that succeeds, also on a
\* pair that was already connected, leaves exactly one edge for the pair,
\* and that edge has multiplier 1, enabled = 1 and the locked value passed
\* to that connect.
C24_SingleEdge ==
  /\ [](\A s \in Ports, d \in Ports :
          /\ Cardinality(IndicesOf(ports[s].dests, d)) <= 1
          /\ Cardinality(IndicesOf(ports[d].srcs, s)) <= 1)
  /\ [][(last'.op = "connect" /\ last'.ret = 0)
          => \A l \in {0, 1} :
               Connect(last'.src, last'.dest, l)
                 => OneEdgeWith(ports', last'.src, last'.dest, 1, l, 1)]_vars

\* a locked connect replaced the edge of a pair that was already connected,
\* on a source that has another destination
C24_Witness ==
  /\ last.op = "connect" /\ last.ret = 0 /\ last.had
  /\ Len(ports[last.src].dests) = 2
  /\ OneEdgeWith(ports, last.src, last.dest, 1, 1, 1)

\* a connect of a CV source to a control destination succeeded in the step
CvToControl(s, d, l) ==
  /\ Connect(s, d, l)
  /\ last'.ret = 0
  /\ ports[s].type = "CV" /\ ports[d].type = "CONTROL"

\* C25 (as stated): when connect(src, dest) succeeds with src of kind CV and
\* dest of kind Control, dest's runtime value after the call equals dest's
\* base value as it was before the call, and the base value is unchanged.
C25_Original ==
  [][\A s \in Ports, d \in Ports, l \in {0, 1} :
       CvToControl(s, d, l)
         => /\ ports'[d].control = ports[d].base_value
            /\ ports'[d].base_value = ports[d].base_value]_vars

\* C25 (amended): when connect(src, dest) succeeds with src of kind CV and
\* dest a control port of an LV2 plugin, dest's base value after the call
\* equals dest's runtime value as it was before the call, and the runtime
\* value is unchanged.
C25_BaseSeeded ==
  [][\A s \in Ports, d \in Ports, l \in {0, 1} :
       (CvToControl(s, d, l) /\ ports[d].internal_type = "LV2")
         => /\ ports'[d].base_value = ports[d].control
            /\ ports'[d].control = ports[d].control]_vars

\* a CV source was connected to a control port after processing had moved
\* its runtime value away from its base value
C25_Witness ==
  /\ last.op = "connect" /\ last.ret = 0
  /\ ports[last.src].type = "CV" /\ ports[last.dest].type = "CONTROL"
  /\ ports[last.dest].base_value > 1
  /\ ports[last.dest].base_value = ports[last.dest].control

(***************************************************************************)
(* Properties of the processing of one port                                *)
(***************************************************************************)
\* the step processed the audio port with the given no-roll flag
SumStep(noroll) ==
  /\ nops' # nops
  /\ last'.op = "sum"
  /\ sum_call'.noroll = noroll
  /\ ports[sum_call'.port].type = "AUDIO"

\* the frames of the range the call was given
InRange(c, l) == c.start_frame <= l /\ l < c.start_frame + c.nframes

\* C26: port_sum_signal_from_inputs first sets the in-range buffer of the
\* audio port to 0 and then sums its inputs: after a rolling audio port with
\* no backend input is processed, each in-range sample equals the sum of
\* that sample of its source ports, whatever the buffer held before.
C26_SumFromZero ==
  [][(SumStep(FALSE)
      /\ ~ ArrayContains(ports[sum_call'.port].srcs, sum_call'.port))
       => \A l \in Frames :
            InRange(sum_call', l)
              => bufs'[sum_call'.port][l]
                   = SourceSum(bufs, ports[sum_call'.port].srcs, 1, l)]_vars

\* C27: when an audio port is processed with no-roll set over the range
\* [start_frame, start_frame + nframes), every sample of the range is 0
\* afterwards, also when start_frame > 0, no source is added, and the
\* samples outside the range are unchanged.
C27_NoRollZeroes ==
  [][SumStep(TRUE)
       => \A l \in Frames :
            bufs'[sum_call'.port][l]
              = IF InRange(sum_call', l)
                  THEN 0 ELSE bufs[sum_call'.port][l]]_vars

\* the CV sources of the port, in source-list order
CvSources(P, port) ==
  SelectSeq(P[port].srcs, LAMBDA q : P[q].type = "CV")

\* the fold of C28 over the first n CV sources: v0 is the base value, and
\* each source adds half the range times its first sample times the
\* multiplier of its connection (1, as connect set it), clamped to the range
RECURSIVE CvFold(_, _, _, _)
CvFold(P, B, port, n) ==
  IF n = 0 THEN P[port].base_value
  ELSE Clamp(CvFold(P, B, port, n - 1)
               + ((ControlMax - ControlMin) \div 2)
                   * B[CvSources(P, port)[n]][0] * 1,
             ControlMin, ControlMax)

C30_ClipGrowOnly ==
  [][(/\ event_queue' # event_queue
      /\ ev_data' # ev_data
      /\ Dispatched(step', AuTrack, "AUDIO")
      /\ tracks[AuTrack].recording_region # 0
      /\ region_data[tracks[AuTrack].recording_region].has_frames)
       => region_data'[tracks[AuTrack].recording_region].num_frames
            >= region_data[tracks[AuTrack].recording_region].num_frames]_vars

(***************************************************************************)
(* Teardown of the recording manager                                       *)
(***************************************************************************)
\* C21: shutdown disables further production, drains the queue once more
\* and only then releases queue and pool: when they are freed no event is
\* left unprocessed in the queue, whatever the interleaving with the audio
\* thread's handle_recording.
C21_FreedQueueEmpty == mgr.freed => event_queue = << >>

(***************************************************************************)
(* The pool of event records at capacity                                   *)
(***************************************************************************)
\* C22: when a cycle needs more records than the pool has left because the
\* consumer has not run, handle_recording neither blocks nor uses a record
\* it did not obtain: the thread goes on, and no more events are pushed
\* than records were available, the others being skipped.
C22_ExhaustionSkips ==
  [][ncycles' = ncycles + 1
       => /\ consumer_pc' = consumer_pc
          /\ Len(event_queue') - Len(event_queue) <= pool_avail]_vars

(***************************************************************************)
(* Attributes of the connections that stay                                 *)
(***************************************************************************)
\* C34: after disconnect (src, X) removed one of several destinations of
\* src, every remaining edge src -> D keeps the multiplier, the locked flag
\* and the enabled flag it had before, and the remaining destinations keep
\* their relative order.
C34_AttributesFollow ==
  [][(last'.op = "disconnect" /\ last'.had /\ nops' = nops + 1)
       => LET src == last'.src
              old == ports[src]
              new == ports'[src]
          IN  /\ new.dests = SelectSeq(old.dests,
                                       LAMBDA D : D # last'.dest)
              /\ \A D \in Range(new.dests) :
                   LET i == ArrayIndexOf(old.dests, D)
                       j == ArrayIndexOf(new.dests, D)
                   IN  /\ new.multipliers[j] = old.multipliers[i]
                       /\ new.dest_locked[j] = old.dest_locked[i]
                       /\ new.dest_enabled[j] = old.dest_enabled[i]]_vars

(***************************************************************************)
(* Start events that arrive more than once                                 *)
(***************************************************************************)
\* number of places of the list that hold the identifier
Occurrences(ids, id) == Cardinality({i \in 1 .. Len(ids) : ids[i] = id})

C38_SnapshotKept ==
  [][\A t \in Tracks :
       /\ (/\ Dispatched(step', t, "STOP_AUTOMATION_RECORDING")
           /\ mgr.is_recording
           /\ mgr.selections_before_start_track)
            => mgr'.selections_before_start_track
       /\ (/\ Dispatched(step', t, "STOP_TRACK_RECORDING")
           /\ \E a \in Tracks : tracks[a].at_recording_started
           /\ mgr.selections_before_start_automation)
            => mgr'.selections_before_start_automation]_vars

(***************************************************************************)
(* Regions and the record actions that commit them                         *)
(***************************************************************************)
\* the committed track record actions that select the region
ActionsSelecting(u, r) ==
  {k \in 1 .. Len(u) : ~ u[k].is_automation /\ r \in u[k].selected}

\* C37: every region the pipeline created on a Start or a Split is selected
\* in exactly one committed record action once its track has stopped (the
\* Stop has been processed and the track has no region in progress), also
\* when two tracks record side by side.
C37_RegionsCommitted ==
  \A r \in 1 .. Len(regions) :
    (/\ regions[r].type # "AUTOMATION"
     /\ tracks[regions[r].track].recording_region = 0)
      => Cardinality(ActionsSelecting(undo, r)) = 1

(***************************************************************************)
(* The region an automation event works on                                 *)
(***************************************************************************)
\* C39: processing an AutomationSample or SplitAutomationRecording event
\* never uses the recording region of the automation track when there is
\* none: when no region covers the event position and the value is
\* unchanged, the event is processed without accessing a region.
C39_NoRegionNoAccess ==
  (tl_step.kind = "automation" /\ tl_step.no_region /\ ~ tl_step.changed)
    => 0 \notin tl_step.uses

(***************************************************************************)
(* The recorded identifiers of a session                                   *)
(***************************************************************************)
\* no track and no automation track is being recorded
NoSessionOpen ==
  /\ ~ mgr.is_recording
  /\ \A a \in Tracks : ~ tracks[a].at_recording_started

\* C33: the list of recorded identifiers is per session: it is emptied when
\* a session starts, also one that records only automation, so that it
\* holds only identifiers of regions created since; and when a Stop (track
\* or automation) is processed it holds each identifier at most once.
C33_PerSessionIds ==
  [][\A t \in Tracks :
       /\ (Dispatched(step', t, "START_AUTOMATION_RECORDING")
             /\ NoSessionOpen)
            => mgr'.recorded_ids = << >>
       /\ (Dispatched(step', t, "START_TRACK_RECORDING") /\ NoSessionOpen)
            => Range(mgr'.recorded_ids)
                 \subseteq (1 .. Len(regions')) \ (1 .. Len(regions))
       /\ (Dispatched(step', t, "STOP_TRACK_RECORDING")
             \/ Dispatched(step', t, "STOP_AUTOMATION_RECORDING"))
            => \A id \in 1 .. Len(regions) :
                 Occurrences(mgr.recorded_ids, id) <= 1]_vars

(***************************************************************************)
(* Data events and the region they are recorded into                       *)
(***************************************************************************)
\* C36: under any interleaving of audio cycles and consumer runs, every
\* Midi or Audio event the consumer dequeues finds a region in progress on
\* its track, so no captured data is dropped at the missing-region test,
\* also when gating goes false and true again before the Stop is processed.
C36_DataFindsRegion ==
  (step.kind = "dispatch" /\ step.ev.type \in DataTypes)
    => step.region_before # 0

C31_FramesStored ==
  (/\ tl_step.kind = "clip"
   /\ tl_step.type \in {"AUDIO", "SPLIT_TRACK_RECORDING"}
   /\ tl_step.region # 0
   /\ ~ region_data[tl_step.region].oob)
    => \A k \in 0 .. tl_step.d.nframes - 1 :
         LET R      == region_data[tl_step.region]
             offset == tl_step.d.g_start_frames + tl_step.d.local_offset + k
                         - R.pos
         IN  /\ R.frames[offset * Channels + 1]
                  = Captured(tl_step.d.cycle, k, 0)
             /\ R.frames[offset * Channels + 2]
                  = Captured(tl_step.d.cycle, k, 1)

(***************************************************************************)
(* Resolution of port identifiers                                          *)
(***************************************************************************)
\* C35: looking a port up by its identifier gives the port itself: after a
\* port is loaded, each of its sources and destinations is the port whose
\* identifier was saved; so the left and right inputs of a fader or
\* pre-fader resolve to two different ports.
C35_RoundTrip ==
  last.op = "init_loaded"
    => /\ last.srcs = last.saved_srcs
       /\ last.dests = last.saved_dests

====
